---- MODULE Spec2Model ----
(***************************************************************************)
(* The airline reservation service of src/app/app.py over the schema of    *)
(* src/data/gerar_populate.py: ticket purchase (purchase_tickets) and     *)
(* check-in (checkin_ticket) as transactions of a READ COMMITTED store     *)
(* with row locks, a transaction-start clock and non-transactional serial  *)
(* sequences.                                                              *)
(*                                                                         *)
(* Text values (seat labels, tax ids, names, airport codes) are sequences  *)
(* of one-character strings, so that len(), isdigit(), strip() and         *)
(* regexp_replace() are computed and not assumed.                          *)
(***************************************************************************)
EXTENDS Integers, Sequences, FiniteSets, TLC

\* ------------------------------------------------------------------ bounds
\* Number of request slots (concurrent workers, each serving one request).
NumProcs == 2
\* The storage clock runs over 0..MaxClock.
MaxClock == 2

Procs == 1..NumProcs

\* ------------------------------------------------------------------ state
VARIABLES
    clock,        \* the storage engine's clock
    venda,        \* committed rows of venda
    bilhete,      \* committed rows of bilhete
    seq_venda,    \* next value of venda.codigo_reserva (SERIAL)
    seq_bilhete,  \* next value of bilhete.id (SERIAL)
    pc,           \* each request slot's position in its handler
    req,          \* each slot's request
    loc,          \* each slot's handler locals
    pend,         \* each slot's uncommitted writes; how its transaction ended
    lock,         \* the row each slot's transaction holds FOR UPDATE
    conn,         \* the slots holding a pooled connection
    poolMax,      \* DB_POOL_MAX_SIZE
    resp,         \* each slot's response
    obs,          \* what was committed when each request arrived
    \* the data generator script (src/data/gerar_populate.py)
    gpc,          \* its position
    todo,         \* the aircraft the running loop has still to visit
    airplane_current_status,
    flight_id_counter,
    flights_generated,
    all_flights_details_for_tickets,
    plane_flight_counts,
    airport_arrival_counts,
    current_processing_date,
    flights_scheduled_today,
    planes_that_flew_today_or_are_busy,
    ticket_id_counter,
    tickets_generated,
    booked_seats_on_flight,
    flight_class_tickets_sold,
    populate      \* the rows written to populate.sql

\* The state of the service and of its store.
appVars ==
    <<clock, venda, bilhete, seq_venda, seq_bilhete, pc, req, loc, pend,
      lock, conn, poolMax, resp, obs>>

\* The state of the data generator script.
genVars ==
    <<gpc, todo, airplane_current_status, flight_id_counter, flights_generated,
      all_flights_details_for_tickets, plane_flight_counts,
      airport_arrival_counts, current_processing_date, flights_scheduled_today,
      planes_that_flew_today_or_are_busy, ticket_id_counter, tickets_generated,
      booked_seats_on_flight, flight_class_tickets_sold, populate>>

vars == <<appVars, genVars>>

\* ------------------------------------------------------------- text values
Digits == {"0", "1", "2", "3", "4", "5", "6", "7", "8", "9"}

UpperChars ==
    {"A", "B", "C", "D", "E", "F", "G", "H", "I", "J", "K", "L", "M",
     "N", "O", "P", "Q", "R", "S", "T", "U", "V", "W", "X", "Y", "Z"}

DigitVal(c) ==
    CASE c = "0" -> 0 [] c = "1" -> 1 [] c = "2" -> 2 [] c = "3" -> 3
      [] c = "4" -> 4 [] c = "5" -> 5 [] c = "6" -> 6 [] c = "7" -> 7
      [] c = "8" -> 8 [] c = "9" -> 9

\* Collation rank of the characters a seat label can hold: digits sort
\* before letters, letters alphabetically.
CharOrd(c) ==
    IF c \in Digits THEN DigitVal(c)
    ELSE CASE c = "A" -> 10 [] c = "B" -> 11 [] c = "C" -> 12 [] c = "D" -> 13
           [] c = "E" -> 14 [] c = "F" -> 15 [] OTHER -> 16

Min(S) == CHOOSE x \in S : \A y \in S : x <= y

\* regexp_replace(s, '[class]', '') without the 'g' flag: only the first
\* match is removed.
RegexpReplaceFirst(s, class) ==
    LET hits == {i \in 1..Len(s) : s[i] \in class}
    IN  IF hits = {} THEN s
        ELSE LET k == Min(hits)
             IN  SubSeq(s, 1, k - 1) \o SubSeq(s, k + 1, Len(s))

\* CAST(text AS INTEGER) of a string of decimal digits.
RECURSIVE CastInteger(_)
CastInteger(s) ==
    IF s = <<>> THEN 0
    ELSE 10 * CastInteger(SubSeq(s, 1, Len(s) - 1)) + DigitVal(s[Len(s)])

\* Text comparison a < b, character by character.
RECURSIVE TextLess(_, _)
TextLess(a, b) ==
    IF b = <<>> THEN FALSE
    ELSE IF a = <<>> THEN TRUE
    ELSE IF CharOrd(Head(a)) # CharOrd(Head(b))
         THEN CharOrd(Head(a)) < CharOrd(Head(b))
    ELSE TextLess(Tail(a), Tail(b))

\* str.isdigit(): non-empty and every character a digit.
IsDigit(s) == Len(s) > 0 /\ \A i \in 1..Len(s) : s[i] \in Digits

\* str.strip(): leading and trailing blanks removed.
RECURSIVE LStrip(_)
LStrip(s) ==
    IF s # <<>> /\ Head(s) = " " THEN LStrip(Tail(s)) ELSE s

RECURSIVE RStrip(_)
RStrip(s) ==
    IF s # <<>> /\ s[Len(s)] = " " THEN RStrip(SubSeq(s, 1, Len(s) - 1)) ELSE s

Strip(s) == RStrip(LStrip(s))

\* ------------------------------------------------------------ JSON values
JNull == [t |-> "null"]
JStr(s) == [t |-> "str", v |-> s]
JBool(b) == [t |-> "bool", v |-> b]
JNum(n) == [t |-> "num", v |-> n]
JList(l) == [t |-> "list", v |-> l]
JDict(d) == [t |-> "dict", v |-> d]

\* Python truthiness of a JSON value (`not x`).
Truthy(x) ==
    CASE x.t = "null" -> FALSE
      [] x.t = "str"  -> x.v # <<>>
      [] x.t = "bool" -> x.v
      [] x.t = "num"  -> x.v # 0
      [] x.t = "list" -> x.v # <<>>
      [] x.t = "dict" -> DOMAIN x.v # {}

\* dict.get(key): the value, or None when the key is missing.
DictGet(d, key) == IF key \in DOMAIN d.v THEN d.v[key] ELSE JNull

\* --------------------------------------------------------- static tables
\* SQL NULL in a text column.
NULL == <<>>

\* No aircraft serial.
NoSerie == ""

LIS == <<"L", "I", "S">>
CDG == <<"C", "D", "G">>

Seat1A == <<"1", "A">>
Seat2A == <<"2", "A">>
Seat10A == <<"1", "0", "A">>
Seat2B == <<"2", "B">>

\* aeroporto.codigo
aeroporto == {LIS, CDG}

\* aviao.no_serie
aviao == {"AV1", "AV2"}

\* assento(lugar, no_serie, prim_classe): AV1 has one first-class and two
\* economy seats, AV2 two economy seats of one row, one with a label AV1
\* has too.
assento ==
    { [lugar |-> Seat1A,  no_serie |-> "AV1", prim_classe |-> TRUE],
      [lugar |-> Seat2A,  no_serie |-> "AV1", prim_classe |-> FALSE],
      [lugar |-> Seat10A, no_serie |-> "AV1", prim_classe |-> FALSE],
      [lugar |-> Seat2A,  no_serie |-> "AV2", prim_classe |-> FALSE],
      [lugar |-> Seat2B,  no_serie |-> "AV2", prim_classe |-> FALSE] }

\* voo(id, no_serie, hora_partida, hora_chegada, partida, chegada): two
\* flights of aircraft AV1 that depart while the clock runs, and five later
\* flights of AV2 from LIS to CDG, two of them departing at the same hour;
\* the ids are not in departure order.  hora_partida is a TIMESTAMP
\* without zone, in hours.
voo ==
    { [id |-> 1, no_serie |-> "AV1", hora_partida |-> 1, hora_chegada |-> 2,
       partida |-> LIS, chegada |-> CDG],
      [id |-> 2, no_serie |-> "AV1", hora_partida |-> 2, hora_chegada |-> 3,
       partida |-> CDG, chegada |-> LIS],
      [id |-> 3, no_serie |-> "AV2", hora_partida |-> 3, hora_chegada |-> 4,
       partida |-> LIS, chegada |-> CDG],
      [id |-> 4, no_serie |-> "AV2", hora_partida |-> 13, hora_chegada |-> 14,
       partida |-> LIS, chegada |-> CDG],
      [id |-> 5, no_serie |-> "AV2", hora_partida |-> 4, hora_chegada |-> 5,
       partida |-> LIS, chegada |-> CDG],
      [id |-> 6, no_serie |-> "AV2", hora_partida |-> 4, hora_chegada |-> 5,
       partida |-> LIS, chegada |-> CDG],
      [id |-> 7, no_serie |-> "AV2", hora_partida |-> 14, hora_chegada |-> 15,
       partida |-> LIS, chegada |-> CDG] }

VooIds == {v.id : v \in voo}
VooById(id) == CHOOSE v \in voo : v.id = id

\* ----------------------------------------------------------------- time
\* Offset of the storage session's time zone from UTC, in clock units.
SessionTzOffset == 1

\* A zone-aware datetime is [wall, off]; it denotes the instant wall - off.
Instant(dt) == dt.wall - dt.off

\* SELECT NOW(): the start time of the current transaction, as a
\* timestamptz rendered in the session's zone.
DbNow(txStart) == [wall |-> txStart + SessionTzOffset, off |-> SessionTzOffset]

\* hora_partida.replace(tzinfo=ZoneInfo("UTC")) of a naive timestamp.
NormalizeDeparture(hora_partida) == [wall |-> hora_partida, off |-> 0]

\* A timestamptz parameter stored in a TIMESTAMP column: its wall time in
\* the session's zone.
ToTimestamp(dt) == Instant(dt) + SessionTzOffset

\* A cutoff that leaves the sale open at the departure instant itself.
MutSalesClosed(hora_venda_db, hora_partida) ==
    Instant(hora_venda_db) > Instant(NormalizeDeparture(hora_partida))

\* A cutoff that also closes the sale of a flight that has as many tickets
\* as its aircraft has seats.
MutSalesClosedWhenFull(hora_venda_db, hora_partida) ==
    \/ Instant(hora_venda_db) >= Instant(NormalizeDeparture(hora_partida))
    \/ \E v \in voo :
          /\ v.hora_partida = hora_partida
          /\ Cardinality({b \in bilhete : b.voo_id = v.id})
                >= Cardinality({a \in assento : a.no_serie = v.no_serie})

\* if hora_venda_db >= hora_partida, in purchase_tickets: two zone-aware
\* datetimes compare as instants.
SalesClosed(hora_venda_db, hora_partida) ==
    Instant(hora_venda_db) >= Instant(NormalizeDeparture(hora_partida))

\* A cutoff that still admits a check-in at the departure instant itself.
MutFlightDeparted(hora_atual_db, hora_partida) ==
    Instant(hora_atual_db) > Instant(NormalizeDeparture(hora_partida))

\* A cutoff that never finds the flight departed.
MutNeverDeparted(hora_atual_db, hora_partida) == FALSE

\* if hora_atual_db >= hora_partida, in checkin_ticket.
FlightDeparted(hora_atual_db, hora_partida) ==
    Instant(hora_atual_db) >= Instant(NormalizeDeparture(hora_partida))

\* -------------------------------------------------- purchase: the request
PRECO_PRIMEIRA == 500
PRECO_ECONOMICA == 150

\* A price that grows with the number of tickets already sold.
MutPreco(prim_classe) ==
    IF prim_classe THEN PRECO_PRIMEIRA ELSE PRECO_ECONOMICA + Cardinality(bilhete)

\* preco = 500.00 if prim_classe else 150.00
Preco(prim_classe) == IF prim_classe THEN PRECO_PRIMEIRA ELSE PRECO_ECONOMICA

\* One entry of bilhetes_a_comprar passes the format check of the loop.
ValidBilheteInfo(b) ==
    /\ b.t = "dict"
    /\ "nome_passageiro" \in DOMAIN b.v
    /\ b.v["nome_passageiro"].t = "str"
    /\ Strip(b.v["nome_passageiro"].v) # <<>>
    /\ "prim_classe" \in DOMAIN b.v
    /\ b.v["prim_classe"].t = "bool"

\* A validation that does not check the tax id.
MutValidatePurchase(data) ==
    IF ~Truthy(data) THEN 400
    ELSE IF data.t # "dict" THEN 500
    ELSE LET bs == DictGet(data, "bilhetes_a_comprar")
         IN  IF ~Truthy(bs) \/ bs.t # "list" THEN 400
             ELSE IF \E i \in 1..Len(bs.v) : ~ValidBilheteInfo(bs.v[i]) THEN 400
             ELSE 0

\* A validation that lets an empty ticket list through.
MutValidatePurchaseEmpty(data) ==
    IF ~Truthy(data) THEN 400
    ELSE IF data.t # "dict" THEN 500
    ELSE LET nif == DictGet(data, "nif_cliente")
             bs  == DictGet(data, "bilhetes_a_comprar")
         IN  IF \/ ~Truthy(nif)
                \/ nif.t # "str"
                \/ Len(nif.v) # 9
                \/ ~IsDigit(nif.v)
             THEN 400
             ELSE IF bs.t # "list" THEN 400
             ELSE IF \E i \in 1..Len(bs.v) : ~ValidBilheteInfo(bs.v[i]) THEN 400
             ELSE 0

\* The checks purchase_tickets makes on the body before it takes a
\* connection: 0 when the body passes, else the status of the response
\* (400 from a check; 500 when data.get raises AttributeError because the
\* body is a truthy JSON value that is not an object).
ValidatePurchase(data) ==
    IF ~Truthy(data) THEN 400
    ELSE IF data.t # "dict" THEN 500
    ELSE LET nif == DictGet(data, "nif_cliente")
             bs  == DictGet(data, "bilhetes_a_comprar")
         IN  IF \/ ~Truthy(nif)
                \/ nif.t # "str"
                \/ Len(nif.v) # 9
                \/ ~IsDigit(nif.v)
             THEN 400
             ELSE IF ~Truthy(bs) \/ bs.t # "list" THEN 400
             ELSE IF \E i \in 1..Len(bs.v) : ~ValidBilheteInfo(bs.v[i]) THEN 400
             ELSE 0

\* -------------------------------------------------------- storage errors
PgUniqueViolation == <<"2", "3", "5", "0", "5">>
PgRaiseException == <<"P", "0", "0", "0", "1">>
PgForeignKeyViolation == <<"2", "3", "5", "0", "3">>
PgSerializationFailure == <<"4", "0", "0", "0", "1">>
PgNoCode == <<>>

\* A handler that knows the unique violation and P0001 only.
MutHandleDbError(pgcode) ==
    IF pgcode = PgRaiseException \/ pgcode = PgUniqueViolation THEN 409 ELSE 500

\* handle_general_exception on a psycopg.DatabaseError carrying pgcode.
HandleDbError(pgcode) ==
    IF pgcode # <<>> /\ pgcode = PgRaiseException THEN 409
    ELSE IF pgcode # <<>> /\ Len(pgcode) >= 2 /\ SubSeq(pgcode, 1, 2) = <<"2", "3">>
         THEN 409
    ELSE 500

\* A transaction block that commits however it is left.
MutTransactionExit(raised) == "COMMIT"

\* A transaction block that rolls back however it is left.
MutTransactionExitRollback(raised) == "ROLLBACK"

\* `with conn.transaction()`: leaving the block by an exception rolls the
\* transaction back; leaving it normally, a `return` included, commits it.
TransactionExit(raised) == IF raised THEN "ROLLBACK" ELSE "COMMIT"

\* ------------------------------------------------------- request inputs
Ana == <<"A", "n", "a">>
Rui == <<"R", "u", "i">>
Eva == <<"E", "v", "a">>
Gil == <<"G", "i", "l">>
Blank == <<" ">>

NifOk == <<"1", "2", "3", "4", "5", "6", "7", "8", "9">>
NifShort == <<"1", "2", "3", "4", "5", "6", "7", "8">>

BilheteInfo(nome, prim_classe) ==
    JDict([nome_passageiro |-> JStr(nome), prim_classe |-> JBool(prim_classe)])

Body(nif, bilhetes) ==
    JDict([nif_cliente |-> JStr(nif), bilhetes_a_comprar |-> JList(bilhetes)])

\* Bodies that pass validation: one economy ticket; two tickets, one of
\* each class; two entries with the same passenger name.
OneTicketBody == Body(NifOk, <<BilheteInfo(Ana, FALSE)>>)
TwoTicketBody == Body(NifOk, <<BilheteInfo(Ana, TRUE), BilheteInfo(Rui, FALSE)>>)
SameNameBody == Body(NifOk, <<BilheteInfo(Ana, FALSE), BilheteInfo(Ana, FALSE)>>)

ValidBodies == {OneTicketBody, TwoTicketBody, SameNameBody}

\* Bodies that do not: no body, a tax id of 8 digits, an empty ticket list,
\* an entry with a blank name, and a JSON array in place of the object.
InvalidBodies ==
    { JNull,
      Body(NifShort, <<BilheteInfo(Ana, FALSE)>>),
      Body(NifOk, <<>>),
      Body(NifOk, <<BilheteInfo(Blank, FALSE)>>),
      JList(<<JNum(1)>>) }

Bodies == ValidBodies \cup InvalidBodies

\* Flight ids a purchase may name: the two flights that depart while the
\* clock runs, a later flight and one id that is none.
VooIdInputs == {1, 2, 3, 9}

\* ---------------------------------------------------------- empty values
NoReq ==
    [kind |-> "", voo_id |-> 0, data |-> JNull, bilhete_id |-> 0,
     partida |-> <<>>, chegada |-> <<>>]

NoLoc ==
    [now |-> [wall |-> 0, off |-> 0], voo_id |-> 0, no_serie |-> NoSerie,
     partida |-> NULL, prim_classe |-> FALSE, codigo_reserva |-> 0, i |-> 0,
     comprados |-> <<>>, lugar |-> NULL, pgcode |-> PgNoCode]

NoPend == [venda |-> {}, inserted |-> {}, updated |-> {}, exit |-> ""]

NoLock == [tbl |-> "", id |-> 0]

\* A response: the status, which return statement produced it, and the
\* fields of its JSON body the claims read.
Response(status, msg) ==
    [status |-> status, msg |-> msg, lugar |-> NULL, no_serie |-> NoSerie,
     codigo_reserva |-> 0, bilhetes |-> <<>>, data |-> <<>>]

NoResp == Response(0, "")

NoObs == [clock |-> 0, found |-> FALSE, lugar |-> NULL, free |-> 0]

\* --------------------------------------------------------- seeded rows
SeedVenda ==
    { [codigo_reserva |-> 1, nif_cliente |-> NifOk, balcao |-> LIS, hora |-> 0] }

SeedBilhete(id, voo_id, nome, lugar) ==
    [id |-> id, voo_id |-> voo_id, codigo_reserva |-> 1, nome_passegeiro |-> nome,
     preco |-> 100, prim_classe |-> FALSE, lugar |-> lugar,
     no_serie |-> VooById(voo_id).no_serie]

\* ============================================== the data generator script
\* src/data/gerar_populate.py writes populate.sql: the schema and the rows
\* the store starts with.  It runs once, from top to bottom; gpc is its
\* position.  Its random draws are the inputs of its steps.

\* NUM_AIRPLANES_MIN aircraft are generated (12 in the script).
NUM_AIRPLANES_MIN == 2
\* Days run from START_DATE, day 0, to END_DATE (211 days later in the
\* script).
START_DATE == 0
END_DATE == 1
\* NUM_SALES_MIN sales are generated (300000 in the script).
NUM_SALES_MIN == 2
\* A datetime has microseconds and a written timestamp has seconds: the
\* instants of one second.
SubSecond == 2
\* FLIGHTS_PER_DAY_MIN
FLIGHTS_PER_DAY_MIN == 10

Second == SubSecond
Minute == 60 * Second
Hour == 60 * Minute
Day == 24 * Hour

\* datetime.datetime.combine(date, datetime.time(hour, minute))
Combine(date, hour, minute) == date * Day + hour * Hour + minute * Minute
\* dt.date()
DateOf(dt) == dt \div Day
\* dt.time(), as the instants since midnight
TimeOf(dt) == dt % Day
\* datetime.time(hour, minute), as the instants since midnight
TimeAt(hour, minute) == hour * Hour + minute * Minute

Max(S) == CHOOSE x \in S : \A y \in S : y <= x

\* dt_obj.strftime('%Y-%m-%d %H:%M:%S'): the timestamp to the second.
format_timestamp_for_sql(dt_obj) == dt_obj \div Second

\* The airports of AIRPORTS_DATA, in its order (twelve in the script).
LHR == <<"L", "H", "R">>
airport_codes == <<LHR, CDG, LIS>>

\* AIRPLANE_MODELS_CONFIG, with cabins of a few seats: the rows, the seat
\* letters of a row and the percentage of rows in first class.
model_names == <<"Airbus A320neo", "Boeing 737-800">>

AIRPLANE_MODELS_CONFIG ==
    [m \in {"Airbus A320neo", "Boeing 737-800"} |->
        IF m = "Airbus A320neo"
        THEN [rows |-> 2, seats_per_row_map |-> <<"A">>,
              first_class_rows_percentage |-> 10]
        ELSE [rows |-> 4, seats_per_row_map |-> <<"A">>,
              first_class_rows_percentage |-> 10]]

\* The aircraft, by their position in airplanes_generated.
GenPlanes == 1..NUM_AIRPLANES_MIN

\* model_names[i % len(model_names)] of the i-th aircraft (i from 0)
ModelOf(plane) == model_names[((plane - 1) % Len(model_names)) + 1]

\* generate_serial_number(model, count): the model's prefix and the count
\* (the unique EAN that follows them is left out).
generate_serial_number(model_name, count) == <<model_name, count>>

SerialOf(plane) == generate_serial_number(ModelOf(plane), plane)

\* math.ceil(num_rows * first_class_rows_percentage)
FirstClassRows(model) ==
    (AIRPLANE_MODELS_CONFIG[model].rows
       * AIRPLANE_MODELS_CONFIG[model].first_class_rows_percentage + 99) \div 100

\* airplane_seat_config_map[serial_no]: the seats of an aircraft, row by
\* row and letter by letter.
airplane_seat_config_map(plane) ==
    LET cfg == AIRPLANE_MODELS_CONFIG[ModelOf(plane)]
        n == Len(cfg.seats_per_row_map)
    IN [k \in 1..(cfg.rows * n) |->
          LET r_idx == ((k - 1) \div n) + 1
              seat_char == cfg.seats_per_row_map[((k - 1) % n) + 1]
          IN [lugar |-> <<r_idx, seat_char>>,
              prim_classe |-> r_idx <= FirstClassRows(ModelOf(plane)),
              no_serie |-> SerialOf(plane)]]

\* seats_generated: the rows of assento.
seats_generated ==
    UNION {{airplane_seat_config_map(plane)[k] :
               k \in DOMAIN airplane_seat_config_map(plane)} : plane \in GenPlanes}

\* sales_generated: sale_id_counter numbers the sales from 1.
sales_generated == [i \in 1..NUM_SALES_MIN |-> [codigo_reserva |-> i]]

None == "None"

\* -------------------------------------------------------- random draws
\* random.randint(lo, hi): the ends of the range.
RandInt(lo, hi) == {lo, hi}
\* random.randint(0, 59) for the minute
RandMinute == {0}
\* random.uniform(1.0, 4.5) hours of flight; the shortest ends within a
\* second.
FlightDurations == {Hour + 1, 4 * Hour + 30 * Minute}
\* random.uniform(1.0, 3.0) hours of turnaround
Turnarounds == {3 * Hour}
\* random.uniform(2.0, 3.0) hours of a LIS/CDG flight
GuaranteeDurations == {2 * Hour}
\* random.randint(0, 45) days and random.randint(0, 12) hours of a LIS/CDG
\* flight
GuaranteeDays == {0}
GuaranteeHours == RandInt(0, 12)

\* The draws of one pass of a loop of the script.
StatusDraws ==
    [location : {airport_codes[i] : i \in DOMAIN airport_codes},
     hour : {5}, minute : RandMinute]

ReturnDraws ==
    [hour : RandInt(6, 9), minute : RandMinute,
     duration : FlightDurations, turnaround : Turnarounds]

OutboundDraws ==
    [hour : RandInt(6, 18), minute : RandMinute,
     duration : FlightDurations, turnaround : Turnarounds,
     hour_ret : RandInt(6, 9), minute_ret : RandMinute]

AdditionalDraws ==
    [hour : RandInt(6, 19), minute : RandMinute,
     duration : FlightDurations, turnaround : Turnarounds]

GuaranteeDraws ==
    [days_out : GuaranteeDays, hours_out : GuaranteeHours,
     duration_out : GuaranteeDurations,
     days_back : GuaranteeDays, hours_back : GuaranteeHours,
     duration_back : GuaranteeDurations]

\* ------------------------------------------------------------ the rows
\* the dict appended to flights_generated
FlightRow(id, plane, dep, arr, partida, chegada) ==
    [id |-> id, no_serie |-> SerialOf(plane),
     hora_partida |-> format_timestamp_for_sql(dep),
     hora_chegada |-> format_timestamp_for_sql(arr),
     partida |-> partida, chegada |-> chegada]

\* the dict appended to all_flights_details_for_tickets
FlightDetails(id, plane, dep, arr, partida, chegada) ==
    [id |-> id, plane |-> plane, no_serie |-> SerialOf(plane),
     partida_dt |-> dep, chegada_dt |-> arr,
     partida_cod |-> partida, chegada_cod |-> chegada]

\* sorted(planes, key=...): the planes of S by their key, and by their
\* place in airplanes_generated where the keys are equal.
KeyLess(a, b) == a[1] < b[1] \/ (a[1] = b[1] /\ a[2] < b[2])

RECURSIVE SortedPlanes(_, _)
SortedPlanes(S, key) ==
    IF S = {} THEN <<>>
    ELSE LET first == CHOOSE p \in S : \A q \in S \ {p} :
                          \/ KeyLess(key[p], key[q])
                          \/ (key[p] = key[q] /\ p < q)
         IN <<first>> \o SortedPlanes(S \ {first}, key)

\* min(possible_chegadas, key=lambda ap: airport_arrival_counts[ap]): the
\* first airport other than partida with the fewest arrivals.
LeastArrivals(counts, partida) ==
    LET Other(ap) == ap # partida
        possible == SelectSeq(airport_codes, Other)
        i == CHOOSE i \in DOMAIN possible :
                 /\ \A j \in DOMAIN possible : counts[possible[i]] <= counts[possible[j]]
                 /\ \A j \in 1..(i - 1) : counts[possible[j]] > counts[possible[i]]
    IN possible[i]

\* planes_to_check_for_return: every aircraft, by available_at
PlanesToCheckForReturn(status) ==
    SortedPlanes(GenPlanes, [p \in GenPlanes |-> <<0, status[p].available_at>>])

\* outbound_candidates and additional_outbound_candidates: the aircraft
\* with no pending return, that did not fly today and are available by
\* today, by flight count and then by available_at.
OutboundCandidates(status, busy, counts, today) ==
    SortedPlanes({p \in GenPlanes :
                     /\ status[p].pending_return_destination = None
                     /\ p \notin busy
                     /\ DateOf(status[p].available_at) <= today},
                 [p \in GenPlanes |-> <<counts[p], status[p].available_at>>])

\* The departure of a leg of an aircraft free from min_departure_time: a
\* drawn time of today if it was free before 06:00 or before today, else
\* the later of min_departure_time and 06:00.
DepartureToday(min_departure_time, today, hour, minute) ==
    IF \/ (TimeOf(min_departure_time) < TimeAt(6, 0)
             /\ DateOf(min_departure_time) = today)
       \/ DateOf(min_departure_time) < today
    THEN Combine(today, hour, minute)
    ELSE Max({min_departure_time, Combine(today, 6, 0)})

\* ------------------------------------------------------ script state
flightVars ==
    <<airplane_current_status, flight_id_counter, flights_generated,
      all_flights_details_for_tickets, plane_flight_counts,
      airport_arrival_counts>>

dayVars ==
    <<current_processing_date, flights_scheduled_today,
      planes_that_flew_today_or_are_busy>>

ticketVars ==
    <<ticket_id_counter, tickets_generated, booked_seats_on_flight,
      flight_class_tickets_sold>>

AirportSet == {airport_codes[i] : i \in DOMAIN airport_codes}

\* The script before its first statement.
GenStart ==
    /\ gpc = "status"
    /\ todo = <<>>
    /\ airplane_current_status =
         [p \in GenPlanes |-> [location |-> None, available_at |-> 0,
                               pending_return_destination |-> None]]
    /\ flight_id_counter = 1
    /\ flights_generated = <<>>
    /\ all_flights_details_for_tickets = <<>>
    /\ plane_flight_counts = [p \in GenPlanes |-> 0]
    /\ airport_arrival_counts = [ap \in AirportSet |-> 0]
    /\ current_processing_date = START_DATE
    /\ flights_scheduled_today = 0
    /\ planes_that_flew_today_or_are_busy = {}
    /\ ticket_id_counter = 1
    /\ tickets_generated = <<>>
    /\ booked_seats_on_flight = <<>>
    /\ flight_class_tickets_sold = <<>>
    /\ populate = [voo |-> <<>>, bilhete |-> <<>>]

\* flights_generated.append(...) and all_flights_details_for_tickets
\* .append(...) for each leg, with flight_id_counter += 1.
AppendFlights(legs) ==
    /\ flights_generated' = flights_generated \o
         [k \in 1..Len(legs) |->
            FlightRow(flight_id_counter + k - 1, legs[k].plane, legs[k].dep,
                      legs[k].arr, legs[k].partida, legs[k].chegada)]
    /\ all_flights_details_for_tickets' = all_flights_details_for_tickets \o
         [k \in 1..Len(legs) |->
            FlightDetails(flight_id_counter + k - 1, legs[k].plane, legs[k].dep,
                          legs[k].arr, legs[k].partida, legs[k].chegada)]
    /\ flight_id_counter' = flight_id_counter + Len(legs)

\* flights_scheduled_today += 1, plane_flight_counts[...] += 1 and
\* airport_arrival_counts[...] += 1 for each leg (airport_departure_counts
\* is written and never read).
CountFlights(legs) ==
    /\ flights_scheduled_today' = flights_scheduled_today + Len(legs)
    /\ plane_flight_counts' =
         [p \in GenPlanes |->
            plane_flight_counts[p]
              + Cardinality({k \in DOMAIN legs : legs[k].plane = p})]
    /\ airport_arrival_counts' =
         [ap \in AirportSet |->
            airport_arrival_counts[ap]
              + Cardinality({k \in DOMAIN legs : legs[k].chegada = ap})]

Leg(plane, dep, arr, partida, chegada) ==
    [plane |-> plane, dep |-> dep, arr |-> arr,
     partida |-> partida, chegada |-> chegada]

\* 3. Generate Voos: each aircraft starts at a drawn airport, free at a
\* drawn time of the first morning.
InitStatus(draw) ==
    /\ gpc = "status"
    /\ airplane_current_status' =
         [p \in GenPlanes |->
            [location |-> draw[p].location,
             available_at |-> Combine(START_DATE, draw[p].hour, draw[p].minute),
             pending_return_destination |-> None]]
    /\ gpc' = "day"
    /\ UNCHANGED <<todo, flight_id_counter, flights_generated,
                   all_flights_details_for_tickets, plane_flight_counts,
                   airport_arrival_counts, dayVars, ticketVars, populate, appVars>>

\* while current_processing_date <= END_DATE: the head of a day, and the
\* sort of Phase 1; after the last day, the LIS/CDG loop over the aircraft.
BeginDay ==
    /\ gpc = "day"
    /\ IF current_processing_date <= END_DATE
       THEN /\ flights_scheduled_today' = 0
            /\ planes_that_flew_today_or_are_busy' = {}
            /\ todo' = PlanesToCheckForReturn(airplane_current_status)
            /\ gpc' = "returns"
       ELSE /\ todo' = [p \in GenPlanes |-> p]
            /\ gpc' = "garantia"
            /\ UNCHANGED <<flights_scheduled_today,
                           planes_that_flew_today_or_are_busy>>
    /\ UNCHANGED <<flightVars, current_processing_date, ticketVars, populate, appVars>>

\* Phase 1, one aircraft: its mandatory return flight.
ReturnFlight(draw) ==
    /\ gpc = "returns" /\ todo # <<>>
    /\ LET plane == Head(todo)
           status == airplane_current_status[plane]
           today == current_processing_date
           min_departure_time_ret == status.available_at
           departure_time_ret ==
               DepartureToday(min_departure_time_ret, today, draw.hour, draw.minute)
           arrival_time_ret == departure_time_ret + draw.duration
           partida_ret == status.location
           chegada_ret == status.pending_return_destination
           skipped ==
               \/ plane \in planes_that_flew_today_or_are_busy
               \/ status.pending_return_destination = None
               \/ DateOf(min_departure_time_ret) > today
               \/ TimeOf(departure_time_ret) > TimeAt(21, 0)
           same_airport == ~skipped /\ partida_ret = chegada_ret
           flies == /\ ~skipped /\ partida_ret # chegada_ret
                    /\ DateOf(arrival_time_ret) <= END_DATE
           legs == IF flies
                   THEN <<Leg(plane, departure_time_ret, arrival_time_ret,
                              partida_ret, chegada_ret)>>
                   ELSE <<>>
       IN /\ AppendFlights(legs)
          /\ CountFlights(legs)
          /\ airplane_current_status' =
               IF flies
               THEN [airplane_current_status EXCEPT ![plane] =
                       [location |-> chegada_ret,
                        available_at |-> arrival_time_ret + draw.turnaround,
                        pending_return_destination |-> None]]
               ELSE IF same_airport
               THEN [airplane_current_status EXCEPT
                       ![plane].pending_return_destination = None]
               ELSE airplane_current_status
          /\ planes_that_flew_today_or_are_busy' =
               IF flies THEN planes_that_flew_today_or_are_busy \cup {plane}
               ELSE planes_that_flew_today_or_are_busy
    /\ todo' = Tail(todo)
    /\ UNCHANGED <<gpc, current_processing_date, ticketVars, populate, appVars>>

\* The end of Phase 1: the sort of Phase 2.
EndReturns ==
    /\ gpc = "returns" /\ todo = <<>>
    /\ todo' = OutboundCandidates(airplane_current_status,
                                  planes_that_flew_today_or_are_busy,
                                  plane_flight_counts, current_processing_date)
    /\ gpc' = "outbound"
    /\ UNCHANGED <<flightVars, dayVars, ticketVars, populate, appVars>>

\* Phase 2, one aircraft: a new flight A -> B to the airport with the
\* fewest arrivals and, where it fits, the immediate return B -> A.
OutboundFlight(draw) ==
    /\ gpc = "outbound" /\ todo # <<>>
    /\ LET plane == Head(todo)
           status == airplane_current_status[plane]
           today == current_processing_date
           min_departure_time_A_B == status.available_at
           departure_time_A_B ==
               DepartureToday(min_departure_time_A_B, today, draw.hour, draw.minute)
           partida_A == status.location
           chegada_B == LeastArrivals(airport_arrival_counts, partida_A)
           flight_duration_A_B == draw.duration
           arrival_time_A_B == departure_time_A_B + flight_duration_A_B
           skipped ==
               \/ plane \in planes_that_flew_today_or_are_busy
               \/ DateOf(min_departure_time_A_B) > today
               \/ TimeOf(departure_time_A_B) > TimeAt(19, 0)
               \/ DateOf(arrival_time_A_B) > END_DATE
           min_departure_time_B_A == arrival_time_A_B + draw.turnaround
           no_return ==
               /\ DateOf(min_departure_time_B_A) > today
               /\ DateOf(min_departure_time_B_A) > END_DATE
           departure_time_B_A ==
               IF DateOf(min_departure_time_B_A) = today
               THEN IF TimeOf(min_departure_time_B_A) < TimeAt(6, 0)
                    THEN Combine(today, draw.hour_ret, draw.minute_ret)
                    ELSE min_departure_time_B_A
               ELSE IF DateOf(min_departure_time_B_A) < today
               THEN Combine(today, draw.hour_ret, draw.minute_ret)
               ELSE Combine(DateOf(min_departure_time_B_A),
                            draw.hour_ret, draw.minute_ret)
           too_late ==
               /\ TimeOf(departure_time_B_A) > TimeAt(21, 0)
               /\ DateOf(departure_time_B_A) = today
           arrival_time_B_A == departure_time_B_A + flight_duration_A_B
           returns == /\ ~skipped /\ ~no_return /\ ~too_late
                      /\ DateOf(arrival_time_B_A) <= END_DATE
           leg_A_B == Leg(plane, departure_time_A_B, arrival_time_A_B,
                          partida_A, chegada_B)
           leg_B_A == Leg(plane, departure_time_B_A, arrival_time_B_A,
                          chegada_B, partida_A)
           legs == IF skipped THEN <<>>
                   ELSE IF returns THEN <<leg_A_B, leg_B_A>>
                   ELSE <<leg_A_B>>
       IN /\ AppendFlights(legs)
          /\ CountFlights(legs)
          /\ airplane_current_status' =
               IF skipped THEN airplane_current_status
               ELSE IF returns
               THEN [airplane_current_status EXCEPT ![plane] =
                       [location |-> partida_A,
                        available_at |-> arrival_time_B_A + draw.turnaround,
                        pending_return_destination |-> None]]
               ELSE [airplane_current_status EXCEPT ![plane] =
                       [location |-> chegada_B,
                        available_at |-> min_departure_time_B_A,
                        pending_return_destination |-> partida_A]]
          /\ planes_that_flew_today_or_are_busy' =
               IF skipped THEN planes_that_flew_today_or_are_busy
               ELSE planes_that_flew_today_or_are_busy \cup {plane}
    /\ todo' = Tail(todo)
    /\ UNCHANGED <<gpc, current_processing_date, ticketVars, populate, appVars>>

\* The end of Phase 2: the sort of the fallback loop.
EndOutbound ==
    /\ gpc = "outbound" /\ todo = <<>>
    /\ todo' = OutboundCandidates(airplane_current_status,
                                  planes_that_flew_today_or_are_busy,
                                  plane_flight_counts, current_processing_date)
    /\ gpc' = "additional"
    /\ UNCHANGED <<flightVars, dayVars, ticketVars, populate, appVars>>

\* The fallback loop, one aircraft: a single outbound leg while fewer than
\* FLIGHTS_PER_DAY_MIN flights are scheduled today.
AdditionalFlight(draw) ==
    /\ gpc = "additional"
    /\ flights_scheduled_today < FLIGHTS_PER_DAY_MIN /\ todo # <<>>
    /\ LET plane == Head(todo)
           status == airplane_current_status[plane]
           today == current_processing_date
           min_dep_time == status.available_at
           dep_time == DepartureToday(min_dep_time, today, draw.hour, draw.minute)
           partida == status.location
           chegada == LeastArrivals(airport_arrival_counts, partida)
           arr_time == dep_time + draw.duration
           skipped ==
               \/ plane \in planes_that_flew_today_or_are_busy
               \/ DateOf(min_dep_time) > today
               \/ TimeOf(dep_time) > TimeAt(20, 0)
               \/ DateOf(arr_time) > END_DATE
           legs == IF skipped THEN <<>>
                   ELSE <<Leg(plane, dep_time, arr_time, partida, chegada)>>
       IN /\ AppendFlights(legs)
          /\ CountFlights(legs)
          /\ airplane_current_status' =
               IF skipped THEN airplane_current_status
               ELSE [airplane_current_status EXCEPT ![plane] =
                       [location |-> chegada,
                        available_at |-> arr_time + draw.turnaround,
                        pending_return_destination |-> partida]]
          /\ planes_that_flew_today_or_are_busy' =
               IF skipped THEN planes_that_flew_today_or_are_busy
               ELSE planes_that_flew_today_or_are_busy \cup {plane}
    /\ todo' = Tail(todo)
    /\ UNCHANGED <<gpc, current_processing_date, ticketVars, populate, appVars>>

\* The end of the fallback loop and of the day:
\* current_processing_date += datetime.timedelta(days=1).
EndDay ==
    /\ gpc = "additional"
    /\ ~(flights_scheduled_today < FLIGHTS_PER_DAY_MIN /\ todo # <<>>)
    /\ current_processing_date' = current_processing_date + 1
    /\ todo' = <<>>
    /\ gpc' = "day"
    /\ UNCHANGED <<flightVars, flights_scheduled_today,
                   planes_that_flew_today_or_are_busy, ticketVars, populate, appVars>>

\* garantia_inicio and garantia_fim: 10:00 of a day of the period and 20:00
\* of a later one (2025-03-18 and 2025-06-17 in the script).
garantia_inicio == Combine(START_DATE, 10, 0)
garantia_fim == Combine(END_DATE, 20, 0)

\* The LIS/CDG loop, one aircraft: a flight LIS -> CDG a drawn time after
\* garantia_inicio and a flight CDG -> LIS a drawn time before garantia_fim.
GuaranteeFlights(draw) ==
    /\ gpc = "garantia" /\ todo # <<>>
    /\ LET plane == Head(todo)
           hora_partida_out ==
               garantia_inicio + draw.days_out * Day + draw.hours_out * Hour
           hora_partida_back ==
               garantia_fim - (draw.days_back * Day + draw.hours_back * Hour)
       IN AppendFlights(
            <<Leg(plane, hora_partida_out, hora_partida_out + draw.duration_out,
                  LIS, CDG),
              Leg(plane, hora_partida_back, hora_partida_back + draw.duration_back,
                  CDG, LIS)>>)
    /\ todo' = Tail(todo)
    /\ UNCHANGED <<gpc, airplane_current_status, plane_flight_counts,
                   airport_arrival_counts, dayVars, ticketVars, populate, appVars>>

\* The end of the LIS/CDG loop: the flights are generated.
EndGuarantee ==
    /\ gpc = "garantia" /\ todo = <<>>
    /\ gpc' = "bilhetes"
    /\ UNCHANGED <<todo, flightVars, dayVars, ticketVars, populate, appVars>>

\* ------------------------------------------------------------ tickets
\* CHECKIN_DEADLINE: 14:40 of the day of garantia_fim.
CHECKIN_DEADLINE == Combine(END_DATE, 14, 40)

\* np.clip(np.random.normal(0.6, 0.2), 0.2, 0.95), in hundredths: the ends
\* of the range
Occupancies == {20, 95}

\* random.shuffle of a list of n items: the order it leaves them in, as the
\* list was or reversed.
Orders(n) == {[k \in 1..n |-> k], [k \in 1..n |-> n + 1 - k]}

\* The list after the shuffle.
Shuffled(list, order) == [k \in DOMAIN list |-> list[order[k]]]

\* the dict appended to tickets_generated (without nome_passegeiro and
\* preco, which are drawn and never read)
TicketDict(id, flight_info, codigo_reserva, prim_classe, lugar) ==
    [id |-> id, voo_id |-> flight_info.id, codigo_reserva |-> codigo_reserva,
     prim_classe |-> prim_classe,
     lugar |-> IF flight_info.chegada_dt <= CHECKIN_DEADLINE THEN lugar ELSE None,
     no_serie |-> flight_info.no_serie]

\* A seat booked twice, as if no seat were ever found booked.
MutSeatFree(lugar, plane_serial, booked) == TRUE

\* (lugar, plane_serial) not in booked_seats_on_flight[flight_id]
SeatFree(lugar, plane_serial, booked) == <<lugar, plane_serial>> \notin booked

\* 5. Generate Bilhetes: the counters before the first loop.
BeginTickets ==
    /\ gpc = "bilhetes"
    /\ ticket_id_counter' = 1
    /\ booked_seats_on_flight' =
         [id \in {all_flights_details_for_tickets[k].id :
                     k \in DOMAIN all_flights_details_for_tickets} |-> {}]
    /\ flight_class_tickets_sold' =
         [id \in {all_flights_details_for_tickets[k].id :
                     k \in DOMAIN all_flights_details_for_tickets} |->
            [first |-> 0, economy |-> 0]]
    /\ todo' = [k \in DOMAIN all_flights_details_for_tickets |-> k]
    /\ gpc' = "classes"
    /\ UNCHANGED <<flightVars, dayVars, tickets_generated, populate, appVars>>

\* The first loop, one flight: a ticket of each class on the first seat of
\* the class after a shuffle, for the sales drawn.
ClassTickets(sale_fc, sale_eco) ==
    /\ gpc = "classes" /\ todo # <<>>
    /\ LET flight_info == all_flights_details_for_tickets[Head(todo)]
           flight_id == flight_info.id
           plane_serial == flight_info.no_serie
           seats_for_this_plane == airplane_seat_config_map(flight_info.plane)
           IsFirst(s) == s.prim_classe
           IsEconomy(s) == ~s.prim_classe
       IN \E order_fc \in Orders(Len(SelectSeq(seats_for_this_plane, IsFirst))),
             order_eco \in Orders(Len(SelectSeq(seats_for_this_plane, IsEconomy))) :
            LET first_class_seats_avail ==
                    Shuffled(SelectSeq(seats_for_this_plane, IsFirst), order_fc)
                economy_seats_avail ==
                    Shuffled(SelectSeq(seats_for_this_plane, IsEconomy), order_eco)
                lugar_fc == first_class_seats_avail[1].lugar
                first_sold ==
                    /\ first_class_seats_avail # <<>>
                    /\ flight_class_tickets_sold[flight_id].first = 0
                    /\ SeatFree(lugar_fc, plane_serial, booked_seats_on_flight[flight_id])
                tickets_fc ==
                    IF first_sold
                    THEN <<TicketDict(ticket_id_counter, flight_info,
                                      sales_generated[sale_fc].codigo_reserva,
                                      TRUE, lugar_fc)>>
                    ELSE <<>>
                booked_fc ==
                    IF first_sold
                    THEN booked_seats_on_flight[flight_id] \cup {<<lugar_fc, plane_serial>>}
                    ELSE booked_seats_on_flight[flight_id]
                counter_fc == ticket_id_counter + Len(tickets_fc)
                lugar_eco == economy_seats_avail[1].lugar
                economy_sold ==
                    /\ economy_seats_avail # <<>>
                    /\ flight_class_tickets_sold[flight_id].economy = 0
                    /\ SeatFree(lugar_eco, plane_serial, booked_fc)
                tickets_eco ==
                    IF economy_sold
                    THEN <<TicketDict(counter_fc, flight_info,
                                      sales_generated[sale_eco].codigo_reserva,
                                      FALSE, lugar_eco)>>
                    ELSE <<>>
                booked_eco ==
                    IF economy_sold
                    THEN booked_fc \cup {<<lugar_eco, plane_serial>>}
                    ELSE booked_fc
            IN /\ tickets_generated' = tickets_generated \o tickets_fc \o tickets_eco
               /\ ticket_id_counter' = counter_fc + Len(tickets_eco)
               /\ booked_seats_on_flight' =
                    [booked_seats_on_flight EXCEPT ![flight_id] = booked_eco]
               /\ flight_class_tickets_sold' =
                    [flight_class_tickets_sold EXCEPT ![flight_id] =
                       [first |-> @.first + Len(tickets_fc),
                        economy |-> @.economy + Len(tickets_eco)]]
    /\ todo' = Tail(todo)
    /\ UNCHANGED <<gpc, flightVars, dayVars, populate, appVars>>

\* The end of the first loop.
EndClasses ==
    /\ gpc = "classes" /\ todo = <<>>
    /\ todo' = [k \in DOMAIN all_flights_details_for_tickets |-> k]
    /\ gpc' = "occupancy"
    /\ UNCHANGED <<flightVars, dayVars, ticketVars, populate, appVars>>

\* for seat_info in seats_for_this_plane: the shuffled seats from the i-th
\* on, a ticket on each seat not yet booked while seats_left > 0.  The
\* result is the tickets, the booked seats, the class counts and the
\* ticket counter after the loop.
RECURSIVE SellSeats(_, _, _, _, _, _)
SellSeats(flight_info, shuffled, sale, i, seats_left, acc) ==
    IF i > Len(shuffled) \/ seats_left <= 0 THEN acc
    ELSE LET seat_info == shuffled[i]
             lugar == seat_info.lugar
             is_first_class == seat_info.prim_classe
             plane_serial == flight_info.no_serie
         IN IF SeatFree(lugar, plane_serial, acc.booked)
            THEN SellSeats(flight_info, shuffled, sale, i + 1, seats_left - 1,
                   [tickets |-> Append(acc.tickets,
                        TicketDict(acc.counter, flight_info,
                                   sales_generated[sale].codigo_reserva,
                                   is_first_class, lugar)),
                    booked |-> acc.booked \cup {<<lugar, plane_serial>>},
                    sold |-> IF is_first_class
                             THEN [acc.sold EXCEPT !.first = @ + 1]
                             ELSE [acc.sold EXCEPT !.economy = @ + 1],
                    counter |-> acc.counter + 1])
            ELSE SellSeats(flight_info, shuffled, sale, i + 1, seats_left, acc)

\* The second loop, one flight: a drawn occupancy of the aircraft's seats,
\* and tickets on shuffled seats up to it, for the sale drawn.
OccupancyTickets(sale) ==
    /\ gpc = "occupancy" /\ todo # <<>>
    /\ LET flight_info == all_flights_details_for_tickets[Head(todo)]
           flight_id == flight_info.id
           seats_for_this_plane == airplane_seat_config_map(flight_info.plane)
           total_seats == Len(seats_for_this_plane)
       IN \E order \in Orders(total_seats), occupancy \in Occupancies :
            LET max_tickets == (total_seats * occupancy) \div 100
                already_sold == Cardinality(booked_seats_on_flight[flight_id])
                seats_left == max_tickets - already_sold
                shuffled == Shuffled(seats_for_this_plane, order)
                start == [tickets |-> tickets_generated,
                          booked |-> booked_seats_on_flight[flight_id],
                          sold |-> flight_class_tickets_sold[flight_id],
                          counter |-> ticket_id_counter]
            IN \E end \in {IF seats_left <= 0 THEN start
                            ELSE SellSeats(flight_info, shuffled, sale, 1,
                                           seats_left, start)} :
               /\ tickets_generated' = end.tickets
               /\ ticket_id_counter' = end.counter
               /\ booked_seats_on_flight' =
                    [booked_seats_on_flight EXCEPT ![flight_id] = end.booked]
               /\ flight_class_tickets_sold' =
                    [flight_class_tickets_sold EXCEPT ![flight_id] = end.sold]
    /\ todo' = Tail(todo)
    /\ UNCHANGED <<gpc, flightVars, dayVars, populate, appVars>>

\* The end of the second loop.
EndOccupancy ==
    /\ gpc = "occupancy" /\ todo = <<>>
    /\ gpc' = "write"
    /\ UNCHANGED <<todo, flightVars, dayVars, ticketVars, populate, appVars>>

\* sorted by id: flight_id_counter and ticket_id_counter number the rows in
\* the order they are appended.
RECURSIVE SortedById(_)
SortedById(rows) ==
    IF rows = <<>> THEN <<>>
    ELSE LET k == CHOOSE k \in DOMAIN rows : \A j \in DOMAIN rows : rows[k].id <= rows[j].id
         IN <<rows[k]>> \o SortedById(SubSeq(rows, 1, k - 1) \o SubSeq(rows, k + 1, Len(rows)))

\* the INSERT INTO voo of a flight
VooInsert(v) ==
    [id |-> v.id, no_serie |-> v.no_serie, hora_partida |-> v.hora_partida,
     hora_chegada |-> v.hora_chegada, partida |-> v.partida, chegada |-> v.chegada]

\* the INSERT INTO bilhete of a ticket: its lugar is written NULL
BilheteInsert(b) ==
    [id |-> b.id, voo_id |-> b.voo_id, codigo_reserva |-> b.codigo_reserva,
     prim_classe |-> b.prim_classe, lugar |-> NULL, no_serie |-> b.no_serie]

\* Write to SQL file: the flights and the tickets, each sorted by id.
WritePopulate ==
    /\ gpc = "write"
    /\ \E voos \in {SortedById(flights_generated)},
          bilhetes \in {SortedById(tickets_generated)} :
         populate' =
           [voo |-> [k \in DOMAIN voos |-> VooInsert(voos[k])],
            bilhete |-> [k \in DOMAIN bilhetes |-> BilheteInsert(bilhetes[k])]]
    /\ gpc' = "done"
    /\ UNCHANGED <<todo, flightVars, dayVars, ticketVars, appVars>>

\* ===================================================== the service's store
\* DB_POOL_MAX_SIZE defaults to 10.
DB_POOL_MAX_SIZE == 10

\* A pool configured (DB_POOL_MIN_SIZE, DB_POOL_MAX_SIZE) with fewer
\* connections than there are requests at a time.
SmallPoolMax == 1

\* The store as the service finds it: one reservation with two unassigned
\* economy tickets on flight 1, a third that may already hold seat 2A, and
\* a ticket of flight 2 (same aircraft) holding seat 2A.
InitStore ==
    /\ clock = 0
    /\ venda = SeedVenda
    /\ \E l3 \in {NULL, Seat2A} :
         bilhete = { SeedBilhete(1, 1, Eva, NULL), SeedBilhete(2, 1, Gil, NULL),
                     SeedBilhete(3, 1, Ana, l3), SeedBilhete(4, 2, Eva, Seat2A) }
    /\ seq_venda = 2
    /\ seq_bilhete = 5
    /\ pc = [p \in Procs |-> "idle"]
    /\ req = [p \in Procs |-> NoReq]
    /\ loc = [p \in Procs |-> NoLoc]
    /\ pend = [p \in Procs |-> NoPend]
    /\ lock = [p \in Procs |-> NoLock]
    /\ conn = {}
    /\ resp = [p \in Procs |-> NoResp]
    /\ obs = [p \in Procs |-> NoObs]
    /\ GenStart

\* The service with the pool size of the default configuration.
Init == InitStore /\ poolMax = DB_POOL_MAX_SIZE

\* The service with the small pool.
InitSmallPool == InitStore /\ poolMax = SmallPoolMax

\* The data generator runs before there is a store: no row, no request.
InitGenerator ==
    /\ clock = 0
    /\ venda = {}
    /\ bilhete = {}
    /\ seq_venda = 1
    /\ seq_bilhete = 1
    /\ pc = [p \in Procs |-> "idle"]
    /\ req = [p \in Procs |-> NoReq]
    /\ loc = [p \in Procs |-> NoLoc]
    /\ pend = [p \in Procs |-> NoPend]
    /\ lock = [p \in Procs |-> NoLock]
    /\ conn = {}
    /\ resp = [p \in Procs |-> NoResp]
    /\ obs = [p \in Procs |-> NoObs]
    /\ poolMax = DB_POOL_MAX_SIZE
    /\ GenStart

\* ------------------------------------------------------ the rows written
\* sql_insert_venda with (nif_cliente, aeroporto_partida_voo, hora_venda_db)
\* and the reservation code the sequence gives.
VendaRow(codigo_reserva, nif_cliente, balcao, hora_venda_db) ==
    [codigo_reserva |-> codigo_reserva, nif_cliente |-> nif_cliente,
     balcao |-> balcao, hora |-> ToTimestamp(hora_venda_db)]

\* An insert that leaves out the aircraft serial of the flight.
MutBilheteRow(id, voo_id, codigo_reserva, nome, prim_classe, no_serie_voo) ==
    [id |-> id, voo_id |-> voo_id, codigo_reserva |-> codigo_reserva,
     nome_passegeiro |-> nome, preco |-> Preco(prim_classe),
     prim_classe |-> prim_classe, lugar |-> NULL, no_serie |-> NoSerie]

\* sql_insert_bilhete with (voo_id, codigo_reserva, nome_passageiro, preco,
\* prim_classe, no_serie_voo) and the id the sequence gives; lugar is not
\* among the columns and stays NULL.
BilheteRow(id, voo_id, codigo_reserva, nome, prim_classe, no_serie_voo) ==
    [id |-> id, voo_id |-> voo_id, codigo_reserva |-> codigo_reserva,
     nome_passegeiro |-> nome, preco |-> Preco(prim_classe),
     prim_classe |-> prim_classe, lugar |-> NULL, no_serie |-> no_serie_voo]

\* ------------------------------------------------------ the seat query
\* A seat query that counts a seat as taken when a ticket of any flight holds it.
MutFreeSeatsAnyFlight(B, no_serie, prim_classe, voo_id) ==
    { a \in assento :
        /\ a.no_serie = no_serie
        /\ a.prim_classe = prim_classe
        /\ ~\E b \in B : /\ b.lugar # NULL
                         /\ b.lugar = a.lugar
                         /\ b.no_serie = a.no_serie }

\* A seat query that counts a seat as taken when any ticket at all holds
\* its label.
MutFreeSeatsByLabel(B, no_serie, prim_classe, voo_id) ==
    { a \in assento :
        /\ a.no_serie = no_serie
        /\ a.prim_classe = prim_classe
        /\ ~\E b \in B : b.lugar # NULL /\ b.lugar = a.lugar }

\* A seat query that offers the seats of both classes.
MutFreeSeatsAnyClass(B, no_serie, prim_classe, voo_id) ==
    { a \in assento :
        /\ a.no_serie = no_serie
        /\ ~\E b \in B : /\ b.voo_id = voo_id
                         /\ b.lugar # NULL
                         /\ b.lugar = a.lugar
                         /\ b.no_serie = a.no_serie }

\* sql_find_seat, WHERE: the seats of aircraft no_serie with the given
\* class that no row of B (the tickets the statement sees) of flight voo_id
\* holds on that aircraft.
FreeSeats(B, no_serie, prim_classe, voo_id) ==
    { a \in assento :
        /\ a.no_serie = no_serie
        /\ a.prim_classe = prim_classe
        /\ ~\E b \in B : /\ b.voo_id = voo_id
                         /\ b.lugar # NULL
                         /\ b.lugar = a.lugar
                         /\ b.no_serie = a.no_serie }

\* An ORDER BY on the seat label as text.
MutSeatBefore(l1, l2) == TextLess(l1, l2)

\* sql_find_seat, ORDER BY: the row number (the label without its first
\* letter, as an integer), then the label without its first digit.
SeatBefore(l1, l2) ==
    LET n1 == CastInteger(RegexpReplaceFirst(l1, UpperChars))
        n2 == CastInteger(RegexpReplaceFirst(l2, UpperChars))
    IN  \/ n1 < n2
        \/ /\ n1 = n2
           /\ TextLess(RegexpReplaceFirst(l1, Digits), RegexpReplaceFirst(l2, Digits))

\* sql_find_seat, LIMIT 1, of a non-empty set of seats of one aircraft.
FirstSeat(seats) ==
    CHOOSE a \in seats : \A o \in seats : o = a \/ SeatBefore(a.lugar, o.lugar)

\* A check-in that does not look at the seat the ticket already holds.
MutAlreadyCheckedIn(b) == FALSE

\* if bilhete_info['lugar'] is not None
AlreadyCheckedIn(b) == b.lugar # NULL

\* ----------------------------------------------------- transaction ends
\* Row locks that hold on Ticket rows only.
MutRowLockedTickets(tbl, id, p) ==
    tbl = "bilhete" /\ \E q \in Procs \ {p} : lock[q] = [tbl |-> tbl, id |-> id]

\* Row locks that hold on Flight rows only.
MutRowLockedFlights(tbl, id, p) ==
    tbl = "voo" /\ \E q \in Procs \ {p} : lock[q] = [tbl |-> tbl, id |-> id]

\* Another slot's transaction holds the FOR UPDATE lock of row id of tbl.
RowLocked(tbl, id, p) ==
    \E q \in Procs \ {p} : lock[q] = [tbl |-> tbl, id |-> id]

\* An UPDATE whose WHERE clause selects the flight's tickets, not the one id.
MutApplyUpdates(B, updated) ==
    { IF \E u \in updated, t \in B : u.id = t.id /\ t.voo_id = b.voo_id
      THEN LET u == CHOOSE u \in updated :
                       \E t \in B : u.id = t.id /\ t.voo_id = b.voo_id
           IN  [b EXCEPT !.lugar = u.lugar, !.no_serie = u.no_serie]
      ELSE b : b \in B }

\* An UPDATE with no WHERE clause: every row gets the seat.
MutApplyUpdatesAll(B, updated) ==
    { IF updated # {}
      THEN LET u == CHOOSE u \in updated : TRUE
           IN  [b EXCEPT !.lugar = u.lugar, !.no_serie = u.no_serie]
      ELSE b : b \in B }

\* UPDATE bilhete SET lugar, no_serie WHERE id, applied to the rows B.
ApplyUpdates(B, updated) ==
    { IF \E u \in updated : u.id = b.id
      THEN LET u == CHOOSE u \in updated : u.id = b.id
           IN  [b EXCEPT !.lugar = u.lugar, !.no_serie = u.no_serie]
      ELSE b : b \in B }

\* An end of request that keeps the connection.
MutFinish(p, r, raised, w) ==
    /\ IF TransactionExit(raised) = "COMMIT"
       THEN /\ venda' = venda \cup w.venda
            /\ bilhete' = ApplyUpdates(bilhete, w.updated) \cup w.inserted
       ELSE UNCHANGED <<venda, bilhete>>
    /\ pend' = [pend EXCEPT ![p] = [NoPend EXCEPT !.exit = TransactionExit(raised)]]
    /\ lock' = [lock EXCEPT ![p] = NoLock]
    /\ conn' = conn
    /\ resp' = [resp EXCEPT ![p] = r]
    /\ pc' = [pc EXCEPT ![p] = "done"]

\* An end of request that keeps the row lock.
MutFinishKeepsLock(p, r, raised, w) ==
    /\ IF TransactionExit(raised) = "COMMIT"
       THEN /\ venda' = venda \cup w.venda
            /\ bilhete' = ApplyUpdates(bilhete, w.updated) \cup w.inserted
       ELSE UNCHANGED <<venda, bilhete>>
    /\ pend' = [pend EXCEPT ![p] = [NoPend EXCEPT !.exit = TransactionExit(raised)]]
    /\ lock' = lock
    /\ conn' = conn \ {p}
    /\ resp' = [resp EXCEPT ![p] = r]
    /\ pc' = [pc EXCEPT ![p] = "done"]

\* The end of slot p's request inside `with conn.transaction()`, with the
\* writes w: they are committed or rolled back, the row lock is released,
\* the connection goes back to the pool and the response r is returned.
Finish(p, r, raised, w) ==
    /\ IF TransactionExit(raised) = "COMMIT"
       THEN /\ venda' = venda \cup w.venda
            /\ bilhete' = ApplyUpdates(bilhete, w.updated) \cup w.inserted
       ELSE UNCHANGED <<venda, bilhete>>
    /\ pend' = [pend EXCEPT ![p] = [NoPend EXCEPT !.exit = TransactionExit(raised)]]
    /\ lock' = [lock EXCEPT ![p] = NoLock]
    /\ conn' = conn \ {p}
    /\ resp' = [resp EXCEPT ![p] = r]
    /\ pc' = [pc EXCEPT ![p] = "done"]

\* What is committed when a request arrives: the clock, and for a check-in
\* whether its ticket exists, the ticket's seat and the number of free
\* seats of its class and flight.
Observe(bilhete_id) ==
    LET rows == {b \in bilhete : b.id = bilhete_id}
    IN  IF rows = {} THEN [NoObs EXCEPT !.clock = clock]
        ELSE LET b == CHOOSE b \in rows : TRUE
             IN  [clock |-> clock, found |-> TRUE, lugar |-> b.lugar,
                  free |-> Cardinality(FreeSeats(bilhete, VooById(b.voo_id).no_serie,
                                                 b.prim_classe, b.voo_id))]

\* Slots are taken in order: slot p serves a request only after every
\* lower slot has one (slots are interchangeable).
SlotFree(p) == pc[p] = "idle" /\ \A q \in Procs : q < p => pc[q] # "idle"

\* ------------------------------------------------------------- purchase
\* POST /compra/<voo_id>/: validation, then `with db_pool.connection()` and
\* `with conn.transaction()` (BEGIN: the transaction's start time is fixed).
PurchaseRequest(p, voo_id, data) ==
    /\ SlotFree(p)
    /\ req' = [req EXCEPT ![p] = [NoReq EXCEPT !.kind = "purchase",
                                               !.voo_id = voo_id, !.data = data]]
    /\ obs' = [obs EXCEPT ![p] = [NoObs EXCEPT !.clock = clock]]
    /\ LET st == ValidatePurchase(data)
       IN  IF st # 0
           THEN /\ resp' = [resp EXCEPT ![p] =
                      Response(st, IF st = 400 THEN "invalid" ELSE "unexpected")]
                /\ pc' = [pc EXCEPT ![p] = "done"]
                /\ UNCHANGED <<loc, conn>>
           ELSE /\ Cardinality(conn) < poolMax
                /\ conn' = conn \cup {p}
                /\ loc' = [loc EXCEPT ![p] = [NoLoc EXCEPT !.now = DbNow(clock)]]
                /\ pc' = [pc EXCEPT ![p] = "p_lock"]
                /\ UNCHANGED resp
    /\ UNCHANGED <<clock, venda, bilhete, seq_venda, seq_bilhete, pend, lock, poolMax, genVars>>

\* A purchase that answers a flight id it does not find as a closed sale.
MutPurchaseLockFlight(p) ==
    /\ pc[p] = "p_lock"
    /\ Finish(p, Response(409, "departed"), FALSE, pend[p])
    /\ UNCHANGED <<clock, seq_venda, seq_bilhete, req, loc, poolMax, genVars, obs>>

\* SELECT ... FROM voo WHERE id = %s FOR UPDATE; SELECT NOW(); the cutoff.
PurchaseLockFlight(p) ==
    /\ pc[p] = "p_lock"
    /\ IF req[p].voo_id \notin VooIds
       THEN /\ Finish(p, Response(404, "not_found"), FALSE, pend[p])
            /\ UNCHANGED loc
       ELSE /\ ~RowLocked("voo", req[p].voo_id, p)
            /\ LET v == VooById(req[p].voo_id)
               IN  IF SalesClosed(loc[p].now, v.hora_partida)
                   THEN /\ Finish(p, Response(409, "departed"), FALSE, pend[p])
                        /\ UNCHANGED loc
                   ELSE /\ lock' = [lock EXCEPT ![p] = [tbl |-> "voo", id |-> v.id]]
                        /\ loc' = [loc EXCEPT ![p].voo_id = v.id,
                                              ![p].no_serie = v.no_serie,
                                              ![p].partida = v.partida]
                        /\ pc' = [pc EXCEPT ![p] = "p_venda"]
                        /\ UNCHANGED <<venda, bilhete, pend, conn, resp>>
    /\ UNCHANGED <<clock, seq_venda, seq_bilhete, req, poolMax, genVars, obs>>

\* INSERT INTO venda ... RETURNING codigo_reserva; then the loop over the
\* ticket list, which a list of no entry leaves at once.
PurchaseInsertVenda(p) ==
    /\ pc[p] = "p_venda"
    /\ seq_venda' = seq_venda + 1
    /\ pend' = [pend EXCEPT ![p].venda =
          { VendaRow(seq_venda, DictGet(req[p].data, "nif_cliente").v,
                     loc[p].partida, loc[p].now) }]
    /\ loc' = [loc EXCEPT ![p].codigo_reserva = seq_venda, ![p].i = 1]
    /\ pc' = [pc EXCEPT ![p] =
          IF Len(DictGet(req[p].data, "bilhetes_a_comprar").v) = 0
          THEN "p_commit" ELSE "p_bilhete"]
    /\ UNCHANGED <<clock, venda, bilhete, seq_bilhete, req, lock, conn, poolMax, genVars, resp, obs>>

\* The classe field of a purchased ticket's summary.
ClasseLabel(prim_classe) == IF prim_classe THEN "Primeira" ELSE "Economica"

\* One turn of the loop over bilhetes_a_comprar: INSERT INTO bilhete ...
\* RETURNING id.  The id is drawn from the sequence before the row is
\* checked against UNIQUE (voo_id, codigo_reserva, nome_passegeiro); a
\* violation raises, which rolls the transaction back.
PurchaseInsertBilhete(p) ==
    /\ pc[p] = "p_bilhete"
    /\ LET bs   == DictGet(req[p].data, "bilhetes_a_comprar").v
           info == bs[loc[p].i].v
           nome == info["nome_passageiro"].v
           cls  == info["prim_classe"].v
           row  == BilheteRow(seq_bilhete, loc[p].voo_id, loc[p].codigo_reserva,
                              nome, cls, loc[p].no_serie)
           dup  == \E b \in bilhete \cup pend[p].inserted :
                      /\ b.voo_id = row.voo_id
                      /\ b.codigo_reserva = row.codigo_reserva
                      /\ b.nome_passegeiro = row.nome_passegeiro
       IN  /\ seq_bilhete' = seq_bilhete + 1
           /\ IF dup
              THEN /\ Finish(p, Response(HandleDbError(PgUniqueViolation), "db_error"),
                             TRUE, pend[p])
                   /\ loc' = [loc EXCEPT ![p].pgcode = PgUniqueViolation]
              ELSE /\ pend' = [pend EXCEPT ![p].inserted = @ \cup {row}]
                   /\ loc' = [loc EXCEPT
                         ![p].i = @ + 1,
                         ![p].comprados = Append(@,
                             [id_bilhete |-> row.id, passageiro |-> nome,
                              classe |-> ClasseLabel(cls), preco |-> row.preco])]
                   /\ pc' = [pc EXCEPT ![p] =
                         IF loc[p].i = Len(bs) THEN "p_commit" ELSE "p_bilhete"]
                   /\ UNCHANGED <<venda, bilhete, lock, conn, resp>>
    /\ UNCHANGED <<clock, seq_venda, req, poolMax, genVars, obs>>

\* The transaction block ends normally: COMMIT, and the 201 response.
PurchaseCommit(p) ==
    /\ pc[p] = "p_commit"
    /\ Finish(p, [Response(201, "ok") EXCEPT
                     !.codigo_reserva = loc[p].codigo_reserva,
                     !.bilhetes = loc[p].comprados],
              FALSE, pend[p])
    /\ UNCHANGED <<clock, seq_venda, seq_bilhete, req, loc, poolMax, genVars, obs>>

\* ------------------------------------------------------------- check-in
\* A check-in that takes a connection whatever the pool has given out.
MutCheckinRequest(p, bilhete_id) ==
    /\ SlotFree(p)
    /\ bilhete_id \in 1..seq_bilhete
    /\ conn' = conn \cup {p}
    /\ req' = [req EXCEPT ![p] = [NoReq EXCEPT !.kind = "checkin",
                                               !.bilhete_id = bilhete_id]]
    /\ obs' = [obs EXCEPT ![p] = Observe(bilhete_id)]
    /\ loc' = [loc EXCEPT ![p] = [NoLoc EXCEPT !.now = DbNow(clock)]]
    /\ pc' = [pc EXCEPT ![p] = "c_lock"]
    /\ UNCHANGED <<clock, venda, bilhete, seq_venda, seq_bilhete, pend, lock,
                   poolMax, genVars, resp>>

\* POST /checkin/<bilhete_id>/: `with db_pool.connection()` and
\* `with conn.transaction()`.  A request names a ticket id the sequence has
\* handed out, or the next one.
CheckinRequest(p, bilhete_id) ==
    /\ SlotFree(p)
    /\ bilhete_id \in 1..seq_bilhete
    /\ Cardinality(conn) < poolMax
    /\ conn' = conn \cup {p}
    /\ req' = [req EXCEPT ![p] = [NoReq EXCEPT !.kind = "checkin",
                                               !.bilhete_id = bilhete_id]]
    /\ obs' = [obs EXCEPT ![p] = Observe(bilhete_id)]
    /\ loc' = [loc EXCEPT ![p] = [NoLoc EXCEPT !.now = DbNow(clock)]]
    /\ pc' = [pc EXCEPT ![p] = "c_lock"]
    /\ UNCHANGED <<clock, venda, bilhete, seq_venda, seq_bilhete, pend, lock,
                   poolMax, genVars, resp>>

\* SELECT ... FROM bilhete b JOIN voo v ... WHERE b.id = %s FOR UPDATE OF b
\* (waits while another transaction holds the row), then the checks on the
\* row read: found, not yet assigned, SELECT NOW() before the departure.
CheckinLockTicket(p) ==
    /\ pc[p] = "c_lock"
    /\ LET rows == {b \in bilhete : b.id = req[p].bilhete_id}
       IN  IF rows = {}
           THEN /\ Finish(p, Response(404, "not_found"), FALSE, pend[p])
                /\ UNCHANGED loc
           ELSE /\ ~RowLocked("bilhete", req[p].bilhete_id, p)
                /\ LET b == CHOOSE b \in rows : TRUE
                       v == VooById(b.voo_id)
                   IN  IF AlreadyCheckedIn(b)
                       THEN /\ Finish(p, [Response(409, "already") EXCEPT
                                             !.lugar = b.lugar],
                                      FALSE, pend[p])
                            /\ UNCHANGED loc
                       ELSE IF FlightDeparted(loc[p].now, v.hora_partida)
                       THEN /\ Finish(p, Response(409, "departed"), FALSE, pend[p])
                            /\ UNCHANGED loc
                       ELSE /\ lock' = [lock EXCEPT ![p] =
                                  [tbl |-> "bilhete", id |-> b.id]]
                            /\ loc' = [loc EXCEPT ![p].voo_id = b.voo_id,
                                                  ![p].prim_classe = b.prim_classe,
                                                  ![p].no_serie = v.no_serie]
                            /\ pc' = [pc EXCEPT ![p] = "c_find"]
                            /\ UNCHANGED <<venda, bilhete, pend, conn, resp>>
    /\ UNCHANGED <<clock, seq_venda, seq_bilhete, req, poolMax, genVars, obs>>

\* A seat search that, finding no seat of the ticket's class, writes the
\* first seat of the aircraft to the ticket before it answers 409.
MutCheckinFindSeat(p) ==
    /\ pc[p] = "c_find"
    /\ LET seats == FreeSeats(bilhete, loc[p].no_serie, loc[p].prim_classe,
                              loc[p].voo_id)
       IN  IF seats = {}
           THEN /\ Finish(p, Response(409, "no_seats"), FALSE,
                          [pend[p] EXCEPT !.updated =
                              { [id |-> req[p].bilhete_id,
                                 lugar |-> FirstSeat({a \in assento :
                                              a.no_serie = loc[p].no_serie}).lugar,
                                 no_serie |-> loc[p].no_serie] }])
                /\ UNCHANGED loc
           ELSE /\ loc' = [loc EXCEPT ![p].lugar = FirstSeat(seats).lugar]
                /\ pc' = [pc EXCEPT ![p] = "c_update"]
                /\ UNCHANGED <<venda, bilhete, pend, lock, conn, resp>>
    /\ UNCHANGED <<clock, seq_venda, seq_bilhete, req, poolMax, genVars, obs>>

\* sql_find_seat, run on the rows committed when the statement starts.
CheckinFindSeat(p) ==
    /\ pc[p] = "c_find"
    /\ LET seats == FreeSeats(bilhete, loc[p].no_serie, loc[p].prim_classe,
                              loc[p].voo_id)
       IN  IF seats = {}
           THEN /\ Finish(p, Response(409, "no_seats"), FALSE, pend[p])
                /\ UNCHANGED loc
           ELSE /\ loc' = [loc EXCEPT ![p].lugar = FirstSeat(seats).lugar]
                /\ pc' = [pc EXCEPT ![p] = "c_update"]
                /\ UNCHANGED <<venda, bilhete, pend, lock, conn, resp>>
    /\ UNCHANGED <<clock, seq_venda, seq_bilhete, req, poolMax, genVars, obs>>

\* UPDATE bilhete SET lugar = %s, no_serie = %s WHERE id = %s; the block
\* ends normally: COMMIT, and the 200 response.
CheckinUpdate(p) ==
    /\ pc[p] = "c_update"
    /\ Finish(p, [Response(200, "ok") EXCEPT !.lugar = loc[p].lugar,
                                             !.no_serie = loc[p].no_serie],
              FALSE,
              [pend[p] EXCEPT !.updated =
                  { [id |-> req[p].bilhete_id, lugar |-> loc[p].lugar,
                     no_serie |-> loc[p].no_serie] }])
    /\ UNCHANGED <<clock, seq_venda, seq_bilhete, req, loc, poolMax, genVars, obs>>

\* -------------------------------------------------------------- queries
LowerChars ==
    {"a", "b", "c", "d", "e", "f", "g", "h", "i", "j", "k", "l", "m",
     "n", "o", "p", "q", "r", "s", "t", "u", "v", "w", "x", "y", "z"}

UpperSeq ==
    <<"A", "B", "C", "D", "E", "F", "G", "H", "I", "J", "K", "L", "M",
      "N", "O", "P", "Q", "R", "S", "T", "U", "V", "W", "X", "Y", "Z">>

LowerSeq ==
    <<"a", "b", "c", "d", "e", "f", "g", "h", "i", "j", "k", "l", "m",
      "n", "o", "p", "q", "r", "s", "t", "u", "v", "w", "x", "y", "z">>

\* str.upper(): lower-case letters become upper case, the rest is kept.
Upper(s) ==
    [i \in 1..Len(s) |->
        IF s[i] \in LowerChars
        THEN UpperSeq[CHOOSE k \in 1..Len(LowerSeq) : LowerSeq[k] = s[i]]
        ELSE s[i]]

\* str.isupper(): at least one cased character and no lower-case one.
IsUpper(s) ==
    /\ \E i \in 1..Len(s) : s[i] \in UpperChars
    /\ \A i \in 1..Len(s) : s[i] \notin LowerChars

\* APP_TZ defaults to UTC: the offset of the application's zone.
APP_TZ_OFFSET == 0

\* get_current_time_app_tz(): datetime.now(APP_TIMEZONE).
AppNow(t) == [wall |-> t + APP_TZ_OFFSET, off |-> APP_TZ_OFFSET]

\* timedelta(hours=12)
WINDOW_HOURS == 12

\* now_app_tz + timedelta(hours=h)
PlusHours(dt, h) == [dt EXCEPT !.wall = @ + h]

\* A TIMESTAMP column compared with a timestamptz value: the storage
\* engine reads the timestamp in the session's zone.
TimestampAsTz(ts) == [wall |-> ts, off |-> SessionTzOffset]

\* A lower limit of the window that admits a flight departing at now.
MutDepartsAfter(hora_partida, now) ==
    Instant(TimestampAsTz(hora_partida)) >= Instant(now)

\* v.hora_partida > %s, and v.hora_partida > NOW()
DepartsAfter(hora_partida, now) ==
    Instant(TimestampAsTz(hora_partida)) > Instant(now)

\* v.hora_partida <= %s
DepartsBy(hora_partida, later) ==
    Instant(TimestampAsTz(hora_partida)) <= Instant(later)

\* An ORDER BY on the flight id in place of the departure time.
RECURSIVE MutOrderByHoraPartida(_)
MutOrderByHoraPartida(S) ==
    IF S = {} THEN {<<>>}
    ELSE LET ids == {x.id : x \in S}
             k   == Min(ids)
             m   == CHOOSE x \in S : x.id = k
         IN  { <<m>> \o t : t \in MutOrderByHoraPartida(S \ {m}) }

\* ORDER BY v.hora_partida: every order of the rows S in which the
\* departure times do not decrease (rows of equal time come in any order).
RECURSIVE OrderByHoraPartida(_)
OrderByHoraPartida(S) ==
    IF S = {} THEN {<<>>}
    ELSE UNION { { <<m>> \o t : t \in OrderByHoraPartida(S \ {m}) } :
                 m \in {x \in S : \A y \in S : x.hora_partida <= y.hora_partida} }

\* LIMIT n
Limit(rows, n) == SubSeq(rows, 1, Min({n, Len(rows)}))

\* len(partida_codigo) == 3 and partida_codigo.isupper()
ValidCode(codigo) == Len(codigo) = 3 /\ IsUpper(codigo)

\* An existence check that finds every code.
MutAirportExists(codigo) == TRUE

\* SELECT COUNT(*) FROM aeroporto WHERE codigo = %s, > 0
AirportExists(codigo) == Cardinality({a \in aeroporto : a = codigo}) > 0

\* The query of list_flights_from_departure, WHERE: the flights leaving
\* partida after now and not after later.
DepartureRows(partida, now, later) ==
    { v \in voo : /\ v.partida = partida
                  /\ DepartsAfter(v.hora_partida, now)
                  /\ DepartsBy(v.hora_partida, later) }

\* SELECT v.no_serie, v.hora_partida, v.chegada AS aeroporto_chegada
DepartureRow(v) ==
    [no_serie |-> v.no_serie, hora_partida |-> v.hora_partida,
     aeroporto_chegada |-> v.chegada]

\* SELECT v.id AS voo_id, v.no_serie, v.hora_partida
AvailableRow(v) ==
    [voo_id |-> v.id, no_serie |-> v.no_serie, hora_partida |-> v.hora_partida]

\* A check of the two codes that lets equal codes through.
MutRouteCheck(partida_upper, chegada_upper) ==
    IF ~(ValidCode(partida_upper) /\ ValidCode(chegada_upper)) THEN 400 ELSE 0

\* The checks list_next_available_flights makes on the upper-cased codes
\* before it reads anything: 0 when they pass, else the status.
RouteCheck(partida_upper, chegada_upper) ==
    IF ~(ValidCode(partida_upper) /\ ValidCode(chegada_upper)) THEN 400
    ELSE IF partida_upper = chegada_upper THEN 400
    ELSE 0

\* query_all_flights, WHERE: the flights of the route that depart after now.
FutureFlights(partida, chegada, now) ==
    { v \in voo : /\ v.partida = partida
                  /\ v.chegada = chegada
                  /\ DepartsAfter(v.hora_partida, now) }

\* A count of issued tickets that leaves out those without a seat.
MutTicketsIssued(B, voo_id) ==
    Cardinality({b \in B : b.voo_id = voo_id /\ b.lugar # NULL})

\* SELECT COUNT(*) FROM bilhete b_count WHERE b_count.voo_id = v.id
TicketsIssued(B, voo_id) == Cardinality({b \in B : b.voo_id = voo_id})

\* A seat count that is one too many, as if the flight were offered while
\* seats >= tickets.
MutSeatsOf(no_serie) == Cardinality({a \in assento : a.no_serie = no_serie}) + 1

\* SELECT COUNT(*) FROM assento s_count WHERE s_count.no_serie = v.no_serie
SeatsOf(no_serie) == Cardinality({a \in assento : a.no_serie = no_serie})

\* query_available, WHERE (with the JOIN on aviao): the future flights of
\* the route whose aircraft has more seats than the flight has tickets
\* among the rows B.
AvailableFlights(B, partida, chegada, now) ==
    { v \in FutureFlights(partida, chegada, now) :
        /\ v.no_serie \in aviao
        /\ SeatsOf(v.no_serie) > TicketsIssued(B, v.id) }

\* LIMIT 3 of query_available.
AVAILABLE_LIMIT == 3

\* cur.fetchall(): the flights in order, as the rows the response lists.
DepartureData(flights) == [i \in 1..Len(flights) |-> DepartureRow(flights[i])]

AvailableData(flights) == [i \in 1..Len(flights) |-> AvailableRow(flights[i])]

\* GET /voos/<partida_codigo>/: the format check, the airport's existence,
\* then the departures of the next 12 hours by the application's clock.
DeparturesRequest(p, partida_codigo) ==
    /\ SlotFree(p)
    /\ req' = [req EXCEPT ![p] = [NoReq EXCEPT !.kind = "departures",
                                               !.partida = partida_codigo]]
    /\ obs' = [obs EXCEPT ![p] = [NoObs EXCEPT !.clock = clock]]
    /\ IF ~ValidCode(partida_codigo)
       THEN resp' = [resp EXCEPT ![p] = Response(400, "invalid")]
       ELSE /\ Cardinality(conn) < poolMax
            /\ IF ~AirportExists(Upper(partida_codigo))
               THEN resp' = [resp EXCEPT ![p] = Response(404, "not_found")]
               ELSE LET now_app_tz == AppNow(clock)
                        twelve_hours_later_app_tz == PlusHours(now_app_tz, WINDOW_HOURS)
                    IN  \E flights \in OrderByHoraPartida(
                               DepartureRows(Upper(partida_codigo), now_app_tz,
                                             twelve_hours_later_app_tz)) :
                           resp' = [resp EXCEPT ![p] =
                              [Response(200, IF flights = <<>> THEN "none" ELSE "ok")
                                 EXCEPT !.data = DepartureData(flights)]]
    /\ pc' = [pc EXCEPT ![p] = "done"]
    /\ UNCHANGED <<clock, venda, bilhete, seq_venda, seq_bilhete, loc, pend,
                   lock, conn, poolMax, genVars>>

\* GET /voos/<partida_codigo>/<chegada_codigo>/: the checks on the codes,
\* the airports' existence, then a connection and query_all_flights, whose
\* NOW() is the start of the connection's transaction.
AvailableRequest(p, partida_codigo, chegada_codigo) ==
    /\ SlotFree(p)
    /\ req' = [req EXCEPT ![p] = [NoReq EXCEPT !.kind = "available",
                                               !.partida = partida_codigo,
                                               !.chegada = chegada_codigo]]
    /\ obs' = [obs EXCEPT ![p] = [NoObs EXCEPT !.clock = clock]]
    /\ LET partida_upper == Upper(partida_codigo)
           chegada_upper == Upper(chegada_codigo)
           st == RouteCheck(partida_upper, chegada_upper)
       IN  IF st # 0
           THEN /\ resp' = [resp EXCEPT ![p] = Response(st, "invalid")]
                /\ pc' = [pc EXCEPT ![p] = "done"]
                /\ UNCHANGED <<loc, conn>>
           ELSE /\ Cardinality(conn) < poolMax
                /\ IF ~AirportExists(partida_upper) \/ ~AirportExists(chegada_upper)
                   THEN /\ resp' = [resp EXCEPT ![p] = Response(404, "not_found")]
                        /\ pc' = [pc EXCEPT ![p] = "done"]
                        /\ UNCHANGED <<loc, conn>>
                   ELSE /\ conn' = conn \cup {p}
                        /\ loc' = [loc EXCEPT ![p] =
                              [NoLoc EXCEPT !.now = DbNow(clock)]]
                        /\ pc' = [pc EXCEPT ![p] = "q_available"]
                        /\ UNCHANGED resp
    /\ UNCHANGED <<clock, venda, bilhete, seq_venda, seq_bilhete, pend, lock, poolMax, genVars>>

\* query_available, run on the rows committed when the statement starts,
\* and the response.
AvailableQuery(p) ==
    /\ pc[p] = "q_available"
    /\ LET partida_upper == Upper(req[p].partida)
           chegada_upper == Upper(req[p].chegada)
           all_flights == FutureFlights(partida_upper, chegada_upper, loc[p].now)
       IN  \E ordered \in OrderByHoraPartida(
                  AvailableFlights(bilhete, partida_upper, chegada_upper, loc[p].now)) :
              LET flights == Limit(ordered, AVAILABLE_LIMIT)
              IN  Finish(p,
                         IF all_flights = {} THEN Response(200, "no_flights")
                         ELSE IF flights = <<>> THEN Response(200, "all_full")
                         ELSE [Response(200, "ok") EXCEPT
                                  !.data = AvailableData(flights)],
                         FALSE, pend[p])
    /\ UNCHANGED <<clock, seq_venda, seq_bilhete, req, loc, poolMax, genVars, obs>>

\* Airport codes a request may carry: two airports, a well-formed code of
\* no airport, a lower-case code and a code of two letters.
XXX == <<"X", "X", "X">>
LisLower == <<"l", "i", "s">>
ShortCode == <<"L", "I">>

CodeInputs == {LIS, CDG, XXX, LisLower, ShortCode}

\* ---------------------------------------------------------------- clock
Tick ==
    /\ clock < MaxClock
    /\ clock' = clock + 1
    /\ UNCHANGED <<venda, bilhete, seq_venda, seq_bilhete, pc, req, loc, pend,
                   lock, conn, poolMax, genVars, resp, obs>>

\* ----------------------------------------------------- the specification
\* The steps of a purchase after its request, and of a check-in.
PurchaseSteps ==
    \/ \E p \in Procs : PurchaseLockFlight(p)
    \/ \E p \in Procs : PurchaseInsertVenda(p)
    \/ \E p \in Procs : PurchaseInsertBilhete(p)
    \/ \E p \in Procs : PurchaseCommit(p)

CheckinSteps ==
    \/ \E p \in Procs : CheckinLockTicket(p)
    \/ \E p \in Procs : CheckinFindSeat(p)
    \/ \E p \in Procs : CheckinUpdate(p)

\* The service: purchases with any body on any flight id, check-ins and
\* the two flight queries.
Next ==
    \/ Tick
    \/ \E p \in Procs, voo_id \in VooIdInputs, data \in Bodies :
          PurchaseRequest(p, voo_id, data)
    \/ PurchaseSteps
    \/ \E p \in Procs, bilhete_id \in 1..seq_bilhete : CheckinRequest(p, bilhete_id)
    \/ CheckinSteps
    \/ \E p \in Procs, partida \in CodeInputs : DeparturesRequest(p, partida)
    \/ \E p \in Procs, partida \in CodeInputs, chegada \in CodeInputs :
          AvailableRequest(p, partida, chegada)
    \/ \E p \in Procs : AvailableQuery(p)

Spec == Init /\ [][Next]_vars

\* Check-ins alone, of the seeded tickets.
NextCheckin ==
    \/ Tick
    \/ \E p \in Procs, bilhete_id \in 1..seq_bilhete : CheckinRequest(p, bilhete_id)
    \/ CheckinSteps

SpecCheckin == Init /\ [][NextCheckin]_vars

\* Purchases alone, on the two flights that depart while the clock runs,
\* with bodies that pass validation and name each passenger once.
NextPurchase ==
    \/ Tick
    \/ \E p \in Procs, voo_id \in {1, 2}, data \in {OneTicketBody, TwoTicketBody} :
          PurchaseRequest(p, voo_id, data)
    \/ PurchaseSteps

SpecPurchase == Init /\ [][NextPurchase]_vars

\* Purchases of two tickets on the later flight, and check-ins of the
\* seeded and of the purchased tickets.
NextBooking ==
    \/ Tick
    \/ \E p \in Procs : PurchaseRequest(p, 2, TwoTicketBody)
    \/ PurchaseSteps
    \/ \E p \in Procs, bilhete_id \in 1..seq_bilhete : CheckinRequest(p, bilhete_id)
    \/ CheckinSteps

SpecBooking == Init /\ [][NextBooking]_vars

\* The next statement of slot p's transaction, whichever handler runs it.
SlotStep(p) ==
    \/ PurchaseLockFlight(p)
    \/ PurchaseInsertVenda(p)
    \/ PurchaseInsertBilhete(p)
    \/ PurchaseCommit(p)
    \/ CheckinLockTicket(p)
    \/ CheckinFindSeat(p)
    \/ CheckinUpdate(p)

\* Purchases of one ticket on the later flight and check-ins of the first
\* ticket, which contend for the flight's row and for the ticket's row.
NextContend ==
    \/ Tick
    \/ \E p \in Procs : PurchaseRequest(p, 2, OneTicketBody)
    \/ PurchaseSteps
    \/ \E p \in Procs : CheckinRequest(p, 1)
    \/ CheckinSteps

\* These requests, each handler running on while its next statement can
\* be executed (a worker thread is not suspended for ever, and the storage
\* engine answers a statement that is not blocked).
SpecContendFair ==
    Init /\ [][NextContend]_vars /\ \A p \in Procs : WF_vars(SlotStep(p))

\* Purchases alone, on the two flights that depart while the clock runs,
\* with the bodies that fail validation and one that passes.
NextBody ==
    \/ Tick
    \/ \E p \in Procs, voo_id \in {1, 2}, data \in InvalidBodies \cup {OneTicketBody} :
          PurchaseRequest(p, voo_id, data)
    \/ PurchaseSteps

SpecBody == Init /\ [][NextBody]_vars

\* A body whose ticket list is empty.
EmptyListBody == Body(NifOk, <<>>)

\* Purchases on the two flights that depart while the clock runs, of two
\* tickets, of one passenger named twice, and with an empty ticket list.
NextSales ==
    \/ Tick
    \/ \E p \in Procs, voo_id \in {1, 2},
          data \in {TwoTicketBody, SameNameBody, EmptyListBody} :
          PurchaseRequest(p, voo_id, data)
    \/ PurchaseSteps

SpecSales == Init /\ [][NextSales]_vars

\* The next-available-flights query of the route LIS-CDG, and purchases of
\* two tickets on its earliest flight, which give it a ticket for each
\* seat of its aircraft.
NextFill ==
    \/ Tick
    \/ \E p \in Procs : PurchaseRequest(p, 3, TwoTicketBody)
    \/ PurchaseSteps
    \/ \E p \in Procs : AvailableRequest(p, LIS, CDG)
    \/ \E p \in Procs : AvailableQuery(p)

SpecFill == Init /\ [][NextFill]_vars

\* The data generator up to its last flight, over the draws of its loops.
NextFlights ==
    \/ \E draw \in [GenPlanes -> StatusDraws] : InitStatus(draw)
    \/ BeginDay
    \/ \E draw \in ReturnDraws : ReturnFlight(draw)
    \/ EndReturns
    \/ \E draw \in OutboundDraws : OutboundFlight(draw)
    \/ EndOutbound
    \/ EndDay
    \/ \E draw \in GuaranteeDraws : GuaranteeFlights(draw)
    \/ EndGuarantee

SpecFlights == InitGenerator /\ [][NextFlights]_vars

\* Phase 2 flies every aircraft it visits (a departure it picks is at 19:00
\* at the latest and lands the same day), so the fallback loop finds no
\* aircraft to visit and AdditionalFlight is never enabled.
FallbackLoopEmpty == gpc = "additional" => todo = <<>>

\* The whole data generator for one outcome of the draws of its flights
\* (every aircraft starts at LIS, leaves at 18:00 and returns the next
\* morning) and of the sales of its tickets (the first sale, and the last
\* for the economy ticket of the first loop), over the draws of the seats
\* and the occupancy of its tickets.
FlightDraw ==
    [location |-> LIS, hour |-> 5, minute |-> 0]

LateDraw ==
    [hour |-> 18, minute |-> 0, duration |-> Hour + 1, turnaround |-> 3 * Hour,
     hour_ret |-> 6, minute_ret |-> 0]

MorningDraw ==
    [hour |-> 6, minute |-> 0, duration |-> Hour + 1, turnaround |-> 3 * Hour]

NoonDraw ==
    [days_out |-> 0, hours_out |-> 0, duration_out |-> 2 * Hour,
     days_back |-> 0, hours_back |-> 12, duration_back |-> 2 * Hour]

NextTickets ==
    \/ InitStatus([p \in GenPlanes |-> FlightDraw])
    \/ BeginDay
    \/ ReturnFlight(MorningDraw)
    \/ EndReturns
    \/ OutboundFlight(LateDraw)
    \/ EndOutbound
    \/ EndDay
    \/ GuaranteeFlights(NoonDraw)
    \/ EndGuarantee
    \/ BeginTickets
    \/ ClassTickets(1, NUM_SALES_MIN)
    \/ EndClasses
    \/ OccupancyTickets(1)
    \/ EndOccupancy
    \/ WritePopulate

SpecTickets == InitGenerator /\ [][NextTickets]_vars

\* ------------------------------------------------------ pool exhaustion
\* db_pool.connection() with every connection of the pool checked out
\* until timeout=5 seconds have passed: PoolTimeout, an OperationalError
\* with no code, which the handler re-raises.  The purchase has passed
\* validation by then.
PurchasePoolTimeout(p, voo_id, data) ==
    /\ SlotFree(p)
    /\ ValidatePurchase(data) = 0
    /\ Cardinality(conn) >= poolMax
    /\ req' = [req EXCEPT ![p] = [NoReq EXCEPT !.kind = "purchase",
                                               !.voo_id = voo_id, !.data = data]]
    /\ obs' = [obs EXCEPT ![p] = [NoObs EXCEPT !.clock = clock]]
    /\ resp' = [resp EXCEPT ![p] = Response(HandleDbError(PgNoCode), "pool_timeout")]
    /\ pc' = [pc EXCEPT ![p] = "done"]
    /\ UNCHANGED <<clock, venda, bilhete, seq_venda, seq_bilhete, loc, pend,
                   lock, conn, poolMax, genVars>>

CheckinPoolTimeout(p, bilhete_id) ==
    /\ SlotFree(p)
    /\ bilhete_id \in 1..seq_bilhete
    /\ Cardinality(conn) >= poolMax
    /\ req' = [req EXCEPT ![p] = [NoReq EXCEPT !.kind = "checkin",
                                               !.bilhete_id = bilhete_id]]
    /\ obs' = [obs EXCEPT ![p] = Observe(bilhete_id)]
    /\ resp' = [resp EXCEPT ![p] = Response(HandleDbError(PgNoCode), "pool_timeout")]
    /\ pc' = [pc EXCEPT ![p] = "done"]
    /\ UNCHANGED <<clock, venda, bilhete, seq_venda, seq_bilhete, loc, pend,
                   lock, conn, poolMax, genVars>>

\* ------------------------------------------------------- storage faults
\* Positions inside `with conn.transaction()`.
InTransaction ==
    {"p_lock", "p_venda", "p_bilhete", "p_commit", "c_lock", "c_find", "c_update"}

\* The position of the next-available-flights query between its two
\* statements, inside `with db_pool.connection()`.
InQuery == {"q_available"}

\* Error codes a failing statement may carry: none (the connection was
\* lost) or P0001 (a trigger raised).
FaultCodes == {PgNoCode, PgRaiseException}

\* The next statement of slot p's transaction raises psycopg.Error: the
\* transaction block is left by the exception, the handler re-raises and
\* handle_general_exception answers.
StorageError(p, pgcode) ==
    /\ pc[p] \in InTransaction \cup InQuery
    /\ loc' = [loc EXCEPT ![p].pgcode = pgcode]
    /\ Finish(p, Response(HandleDbError(pgcode), "db_error"), TRUE, pend[p])
    /\ UNCHANGED <<clock, seq_venda, seq_bilhete, req, poolMax, genVars, obs>>

\* Purchases on the later flight, of two tickets or of one passenger named
\* twice, whose statements may fail.
NextFault ==
    \/ Tick
    \/ \E p \in Procs, data \in {TwoTicketBody, SameNameBody} :
          PurchaseRequest(p, 2, data)
    \/ PurchaseSteps
    \/ \E p \in Procs, pgcode \in FaultCodes : StorageError(p, pgcode)

SpecFault == Init /\ [][NextFault]_vars

\* ------------------------------------------------ further specifications
\* Purchases of two tickets, one of each class, on a flight of AV2 (which
\* has no first-class seat), and check-ins of the seeded and of the
\* purchased tickets.
NextSeats ==
    \/ Tick
    \/ \E p \in Procs : PurchaseRequest(p, 3, TwoTicketBody)
    \/ PurchaseSteps
    \/ \E p \in Procs, bilhete_id \in 1..seq_bilhete : CheckinRequest(p, bilhete_id)
    \/ CheckinSteps

SpecSeats == Init /\ [][NextSeats]_vars

\* Purchases of one ticket on a flight and on a flight id that is none,
\* and check-ins of ticket ids that exist and of the next one.
NextNotFound ==
    \/ Tick
    \/ \E p \in Procs, voo_id \in {2, 9} : PurchaseRequest(p, voo_id, OneTicketBody)
    \/ PurchaseSteps
    \/ \E p \in Procs, bilhete_id \in 1..seq_bilhete : CheckinRequest(p, bilhete_id)
    \/ CheckinSteps

SpecNotFound == Init /\ [][NextNotFound]_vars

\* The departures query alone, with every code.
NextDepartures ==
    \/ Tick
    \/ \E p \in Procs, partida \in CodeInputs : DeparturesRequest(p, partida)

SpecDepartures == Init /\ [][NextDepartures]_vars

\* Routes a request may name: the two routes that have flights, in upper
\* and in lower case, a route to a code of no airport, and routes from an
\* airport, and from a code of no airport, to itself.
RouteInputs ==
    { <<LIS, CDG>>, <<CDG, LIS>>, <<LisLower, CDG>>, <<LIS, XXX>>,
      <<LIS, LIS>>, <<XXX, XXX>> }

\* The next-available-flights query with these routes, and purchases of
\* two tickets on the earliest flight of AV2, which fill it.
NextAvailable ==
    \/ Tick
    \/ \E p \in Procs : PurchaseRequest(p, 3, TwoTicketBody)
    \/ PurchaseSteps
    \/ \E p \in Procs, route \in RouteInputs :
          AvailableRequest(p, route[1], route[2])
    \/ \E p \in Procs : AvailableQuery(p)

SpecAvailable == Init /\ [][NextAvailable]_vars

\* Error codes of the two classes the handler names and of another class,
\* and no code.
ErrorCodes ==
    {PgNoCode, PgRaiseException, PgUniqueViolation, PgForeignKeyViolation,
     PgSerializationFailure}

\* Check-ins of the first ticket and the next-available-flights query,
\* whose statements may fail with any of these codes.
NextErrors ==
    \/ Tick
    \/ \E p \in Procs : CheckinRequest(p, 1)
    \/ CheckinSteps
    \/ \E p \in Procs : AvailableRequest(p, LIS, CDG)
    \/ \E p \in Procs : AvailableQuery(p)
    \/ \E p \in Procs, pgcode \in ErrorCodes : StorageError(p, pgcode)

SpecErrors == Init /\ [][NextErrors]_vars

\* Purchases with a body that passes validation, with no body and with an
\* array for a body, on a flight and on a flight id that is none;
\* check-ins of the first ticket and of a ticket id that is none; and
\* statements that fail.
NextPool ==
    \/ Tick
    \/ \E p \in Procs, voo_id \in {2, 9},
          data \in {OneTicketBody, JNull, JList(<<JNum(1)>>)} :
          PurchaseRequest(p, voo_id, data)
    \/ PurchaseSteps
    \/ \E p \in Procs, bilhete_id \in {1, seq_bilhete} : CheckinRequest(p, bilhete_id)
    \/ CheckinSteps
    \/ \E p \in Procs : StorageError(p, PgNoCode)

SpecPool == Init /\ [][NextPool]_vars

\* Purchases of one ticket and check-ins of the first ticket against the
\* small pool: a request that finds it exhausted waits or times out.
NextPoolLimit ==
    \/ Tick
    \/ \E p \in Procs : PurchaseRequest(p, 2, OneTicketBody)
    \/ PurchaseSteps
    \/ \E p \in Procs : CheckinRequest(p, 1)
    \/ CheckinSteps
    \/ \E p \in Procs : PurchasePoolTimeout(p, 2, OneTicketBody)
    \/ \E p \in Procs : CheckinPoolTimeout(p, 1)

SpecPoolLimit == InitSmallPool /\ [][NextPoolLimit]_vars

\* A code of three characters with a digit among its letters.
DigitCode == <<"L", "1", "S">>

\* The codes above and the code with a digit.
FormatInputs == CodeInputs \cup {DigitCode}

\* Routes to an airport from codes of each form, and a route to the code
\* with a digit.
FormatRoutes ==
    { <<LIS, CDG>>, <<LisLower, CDG>>, <<DigitCode, CDG>>, <<ShortCode, CDG>>,
      <<LIS, DigitCode>> }

\* The two flight queries with codes of every form.
NextFormat ==
    \/ Tick
    \/ \E p \in Procs, partida \in FormatInputs : DeparturesRequest(p, partida)
    \/ \E p \in Procs, route \in FormatRoutes :
          AvailableRequest(p, route[1], route[2])
    \/ \E p \in Procs : AvailableQuery(p)

SpecFormat == Init /\ [][NextFormat]_vars

\* Routes between an airport and a code of no airport, in both directions,
\* next to the route that has flights.
LookupRoutes == { <<LIS, CDG>>, <<LIS, XXX>>, <<XXX, CDG>>, <<XXX, LIS>> }

\* The two flight queries, the first with every code and the second with
\* these routes.
NextLookup ==
    \/ Tick
    \/ \E p \in Procs, partida \in CodeInputs : DeparturesRequest(p, partida)
    \/ \E p \in Procs, route \in LookupRoutes :
          AvailableRequest(p, route[1], route[2])
    \/ \E p \in Procs : AvailableQuery(p)

SpecLookup == Init /\ [][NextLookup]_vars

\* ================================================================ claims
Done(p) == pc[p] = "done"

TicketRow(id) == CHOOSE b \in bilhete : b.id = id

\* C1: in every reachable state no two distinct tickets of the same flight
\* hold the same non-null seat label on the same aircraft serial.
C1_NoDoubleBooking ==
    \A b1, b2 \in bilhete :
        ~ /\ b1.id # b2.id
          /\ b1.voo_id = b2.voo_id
          /\ b1.lugar # NULL
          /\ b1.lugar = b2.lugar
          /\ b1.no_serie = b2.no_serie

\* The tickets of the check-in requests, and the requests that got status s.
CheckinsWithStatus(s) ==
    {p \in Procs : req[p].kind = "checkin" /\ resp[p].status = s}

\* Every slot has served a check-in, the N tickets are distinct, existed
\* unassigned on one flight in one class when requested, every transaction
\* started before the departure, and K <= N seats of the class were free.
C2_Scenario ==
    /\ \A p \in Procs : Done(p) /\ req[p].kind = "checkin" /\ obs[p].found
                        /\ obs[p].lugar = NULL
    /\ \A p, q \in Procs : p # q => req[p].bilhete_id # req[q].bilhete_id
    /\ \A p, q \in Procs :
          /\ TicketRow(req[p].bilhete_id).voo_id = TicketRow(req[q].bilhete_id).voo_id
          /\ TicketRow(req[p].bilhete_id).prim_classe
               = TicketRow(req[q].bilhete_id).prim_classe
    /\ \A p \in Procs :
          Instant(loc[p].now) < VooById(TicketRow(req[p].bilhete_id).voo_id).hora_partida
    /\ obs[1].free <= NumProcs

\* C2: N parallel check-ins of N distinct unassigned tickets of one flight
\* and class, with K <= N free seats of that class: exactly K succeed,
\* exactly N-K end in Conflict (409), and no two successes get the same seat.
C2_ParallelCheckins ==
    C2_Scenario =>
        /\ Cardinality(CheckinsWithStatus(200)) = obs[1].free
        /\ Cardinality(CheckinsWithStatus(409)) = NumProcs - obs[1].free
        /\ \A p, q \in CheckinsWithStatus(200) :
              p # q => resp[p].lugar # resp[q].lugar

\* C3: once a ticket holds seat s (its first check-in succeeded), every
\* later check-in of that ticket answers 409 reporting s and the ticket
\* still holds s; no ticket gets two successful check-ins.
C3_CheckinOnce ==
    /\ \A p \in Procs :
          (Done(p) /\ req[p].kind = "checkin" /\ obs[p].found /\ obs[p].lugar # NULL)
          => /\ resp[p].status = 409
             /\ resp[p].msg = "already"
             /\ resp[p].lugar = obs[p].lugar
             /\ TicketRow(req[p].bilhete_id).lugar = obs[p].lugar
    /\ \A p, q \in CheckinsWithStatus(200) :
          p # q => req[p].bilhete_id # req[q].bilhete_id

\* A check-in succeeded with a seat and a later check-in of the same ticket
\* was refused with that seat.
C3_Witness ==
    \E p, q \in Procs :
        /\ p # q
        /\ req[p].kind = "checkin" /\ resp[p].status = 200
        /\ req[q].kind = "checkin" /\ req[q].bilhete_id = req[p].bilhete_id
        /\ obs[q].lugar = resp[p].lugar
        /\ resp[q].status = 409 /\ resp[q].lugar = resp[p].lugar

\* C4: a ticket whose seat is non-null keeps its seat label and aircraft
\* serial in every step of purchase and check-in (and stays a row).
C4_AssignedIsFinal ==
    [][\A b \in bilhete :
          b.lugar # NULL =>
             \E c \in bilhete' :
                /\ c.id = b.id
                /\ c.lugar = b.lugar
                /\ c.no_serie = b.no_serie]_vars

\* A check-in gave a ticket its seat, another ticket of the same flight was
\* checked in as well, and the first ticket still holds the seat it was given.
C4_Witness ==
    \E p, q \in Procs :
        /\ p # q
        /\ req[p].kind = "checkin" /\ resp[p].status = 200
        /\ req[q].kind = "checkin" /\ resp[q].status = 200
        /\ req[q].bilhete_id # req[p].bilhete_id
        /\ TicketRow(req[p].bilhete_id).voo_id = TicketRow(req[q].bilhete_id).voo_id
        /\ TicketRow(req[p].bilhete_id).lugar = resp[p].lugar
        /\ resp[p].lugar # resp[q].lugar

\* The body is as the purchase contract requires: an object whose tax id
\* is 9 digits and whose ticket list is non-empty, every entry an object
\* with a non-blank passenger name and a boolean cabin flag.
WellFormedBody(data) ==
    /\ data.t = "dict"
    /\ {"nif_cliente", "bilhetes_a_comprar"} \subseteq DOMAIN data.v
    /\ data.v["nif_cliente"].t = "str"
    /\ Len(data.v["nif_cliente"].v) = 9
    /\ \A i \in 1..9 : data.v["nif_cliente"].v[i] \in Digits
    /\ data.v["bilhetes_a_comprar"].t = "list"
    /\ Len(data.v["bilhetes_a_comprar"].v) >= 1
    /\ \A i \in 1..Len(data.v["bilhetes_a_comprar"].v) :
          LET e == data.v["bilhetes_a_comprar"].v[i]
          IN  /\ e.t = "dict"
              /\ {"nome_passageiro", "prim_classe"} \subseteq DOMAIN e.v
              /\ e.v["nome_passageiro"].t = "str"
              /\ \E k \in 1..Len(e.v["nome_passageiro"].v) :
                    e.v["nome_passageiro"].v[k] # " "
              /\ e.v["prim_classe"].t = "bool"

\* Slot p served a purchase on an existing flight.
PurchaseOnFlight(p) ==
    Done(p) /\ req[p].kind = "purchase" /\ req[p].voo_id \in VooIds

\* C5: purchase is all-or-nothing.  The rows of a purchase that has not
\* ended with 201 (still running, refused, failed on the uniqueness of
\* (flight, reservation, passenger name) or on a storage error) are in no
\* committed table, which is all another transaction reads; every Sale row
\* of the service belongs to a purchase that ended with 201 and has all the
\* tickets of that purchase.
C5_PurchaseAllOrNothing ==
    /\ \A p \in Procs :
          (req[p].kind = "purchase" /\ resp[p].status # 201)
          => /\ ~\E s \in venda :
                   loc[p].codigo_reserva # 0 /\ s.codigo_reserva = loc[p].codigo_reserva
             /\ ~\E b \in bilhete :
                   \/ loc[p].codigo_reserva # 0 /\ b.codigo_reserva = loc[p].codigo_reserva
                   \/ \E i \in 1..Len(loc[p].comprados) :
                         b.id = loc[p].comprados[i].id_bilhete
    /\ \A s \in venda :
          s.codigo_reserva > 1 =>
             \E p \in Procs :
                /\ resp[p].status = 201
                /\ resp[p].codigo_reserva = s.codigo_reserva
                /\ Cardinality({b \in bilhete : b.codigo_reserva = s.codigo_reserva})
                     = Len(req[p].data.v["bilhetes_a_comprar"].v)
    /\ \A b \in bilhete :
          b.codigo_reserva > 1 => \E s \in venda : s.codigo_reserva = b.codigo_reserva

\* One purchase failed on a repeated passenger name after its Sale row and
\* first Ticket row were inserted, and another failed with a storage error
\* after its Sale row and a Ticket row were inserted.
C5_Witness ==
    \E p, q \in Procs :
        /\ p # q
        /\ req[p].kind = "purchase" /\ req[q].kind = "purchase"
        /\ Done(p) /\ resp[p].status = 409 /\ resp[p].msg = "db_error"
        /\ Len(loc[p].comprados) = 1
        /\ Done(q) /\ resp[q].status = 500 /\ resp[q].msg = "db_error"
        /\ loc[q].codigo_reserva # 0 /\ Len(loc[q].comprados) >= 1

\* C6: a purchase with a valid body on an existing flight whose canonical
\* now is at or after the departure answers 409 and has inserted no Sale
\* and no Ticket row (no reservation code, no ticket id was ever drawn).
C6_PurchaseCutoff ==
    \A p \in Procs :
        ( /\ PurchaseOnFlight(p)
          /\ WellFormedBody(req[p].data)
          /\ loc[p].now.wall - loc[p].now.off >= VooById(req[p].voo_id).hora_partida )
        => /\ resp[p].status = 409
           /\ resp[p].msg = "departed"
           /\ loc[p].codigo_reserva = 0
           /\ loc[p].comprados = <<>>
           /\ resp[p].bilhetes = <<>>

\* A valid purchase whose canonical now equals the departure was refused.
C6_Witness ==
    \E p \in Procs :
        /\ PurchaseOnFlight(p)
        /\ WellFormedBody(req[p].data)
        /\ Instant(loc[p].now) = VooById(req[p].voo_id).hora_partida
        /\ resp[p].status = 409

\* C7 as stated: a purchase on a flight whose departure is in the past
\* when the request arrives answers 409 whatever its body.
C7_PastFlightAlways409 ==
    \A p \in Procs :
        (PurchaseOnFlight(p) /\ VooById(req[p].voo_id).hora_partida < obs[p].clock)
        => resp[p].status = 409

\* C7 amended: a purchase on a flight whose departure is in the past
\* answers 409 when its body is well formed; with any other body it answers
\* 400 or 500, never 409, and no transaction was opened for it.
C7_PastFlightValidBody409 ==
    \A p \in Procs :
        (PurchaseOnFlight(p) /\ VooById(req[p].voo_id).hora_partida < obs[p].clock)
        => IF WellFormedBody(req[p].data)
           THEN resp[p].status = 409
           ELSE resp[p].status \in {400, 500} /\ loc[p] = NoLoc

\* On a flight already departed, one purchase with a well-formed body got
\* 409 and one with a malformed body got 400.
C7_Witness ==
    \E p, q \in Procs :
        /\ PurchaseOnFlight(p) /\ PurchaseOnFlight(q)
        /\ VooById(req[p].voo_id).hora_partida < obs[p].clock
        /\ VooById(req[q].voo_id).hora_partida < obs[q].clock
        /\ WellFormedBody(req[p].data) /\ resp[p].status = 409
        /\ ~WellFormedBody(req[q].data) /\ resp[q].status = 400

\* C8: a check-in of a ticket that existed unassigned when requested, whose
\* canonical now is at or after the departure, answers 409 and assigns no
\* seat: "departed", unless another check-in gave the ticket its seat first.
C8_CheckinCutoff ==
    \A p \in Procs :
        ( /\ Done(p) /\ req[p].kind = "checkin"
          /\ obs[p].found /\ obs[p].lugar = NULL
          /\ loc[p].now.wall - loc[p].now.off
               >= VooById(TicketRow(req[p].bilhete_id).voo_id).hora_partida )
        => /\ resp[p].status = 409
           /\ loc[p].lugar = NULL
           /\ resp[p].msg \in {"departed", "already"}
           /\ TicketRow(req[p].bilhete_id).lugar = NULL => resp[p].msg = "departed"

\* A check-in whose canonical now equals the departure was refused and the
\* ticket is still unassigned.
C8_Witness ==
    \E p \in Procs :
        /\ Done(p) /\ req[p].kind = "checkin" /\ obs[p].found
        /\ Instant(loc[p].now) = VooById(TicketRow(req[p].bilhete_id).voo_id).hora_partida
        /\ resp[p].status = 409 /\ resp[p].msg = "departed"
        /\ TicketRow(req[p].bilhete_id).lugar = NULL

\* C9: the step that ends a purchase of n tickets on flight f with 201
\* commits exactly one new Sale row (a fresh reservation code, the client
\* tax id, f's departure airport, the canonical now) and exactly n new
\* Ticket rows with fresh ids, each of flight f, the new reservation code,
\* f's aircraft serial and a null seat; the response carries the code and
\* lists exactly those n tickets, in the order of the request.
C9_PurchaseCommits ==
    [][\A p \in Procs :
          (resp[p].status = 0 /\ resp'[p].status = 201)
          => LET f    == VooById(req[p].voo_id)
                 code == resp'[p].codigo_reserva
                 bs   == req[p].data.v["bilhetes_a_comprar"].v
                 n    == Len(bs)
                 newB == bilhete' \ bilhete
             IN  /\ venda \subseteq venda'
                 /\ venda' \ venda =
                       { [codigo_reserva |-> code,
                          nif_cliente |-> req[p].data.v["nif_cliente"].v,
                          balcao |-> f.partida,
                          hora |-> loc[p].now.wall] }
                 /\ ~\E s \in venda : s.codigo_reserva = code
                 /\ bilhete \subseteq bilhete'
                 /\ Cardinality(newB) = n
                 /\ \A b \in newB :
                       /\ b.voo_id = f.id
                       /\ b.codigo_reserva = code
                       /\ b.no_serie = f.no_serie
                       /\ b.lugar = NULL
                       /\ ~\E o \in bilhete : o.id = b.id
                 /\ Len(resp'[p].bilhetes) = n
                 /\ \A i \in 1..n :
                       \E b \in newB :
                          /\ b.id = resp'[p].bilhetes[i].id_bilhete
                          /\ b.nome_passegeiro = bs[i].v["nome_passageiro"].v
                          /\ b.prim_classe = bs[i].v["prim_classe"].v
                          /\ resp'[p].bilhetes[i].passageiro = b.nome_passegeiro
                          /\ resp'[p].bilhetes[i].preco = b.preco
                 /\ \A i, j \in 1..n :
                       i # j => resp'[p].bilhetes[i].id_bilhete
                                  # resp'[p].bilhetes[j].id_bilhete]_vars

\* A purchase of two tickets ended with 201 and its rows are committed.
C9_Witness ==
    \E p \in Procs :
        /\ PurchaseOnFlight(p) /\ resp[p].status = 201
        /\ Len(resp[p].bilhetes) = 2
        /\ \E s \in venda : s.codigo_reserva = resp[p].codigo_reserva
        /\ Cardinality({b \in bilhete : b.codigo_reserva = resp[p].codigo_reserva}) = 2

\* The tickets the service's purchases created (the seeded reservation is 1).
Purchased == {b \in bilhete : b.codigo_reserva > 1}

\* C10: the price of a purchased ticket is fixed by its cabin class alone:
\* two purchased tickets have the same price exactly when they have the same
\* class, whatever their flight, passenger, time and reservation.
C10_FlatPricePerClass ==
    \A b1, b2 \in Purchased :
        (b1.preco = b2.preco) <=> (b1.prim_classe = b2.prim_classe)

\* Two purchases, on different flights and at different times, committed
\* economy tickets, and a first-class ticket is committed too.
C10_Witness ==
    \E b1, b2, b3 \in Purchased :
        /\ b1.voo_id # b2.voo_id
        /\ ~b1.prim_classe /\ ~b2.prim_classe /\ b3.prim_classe
        /\ \E s1, s2 \in venda :
              /\ s1.codigo_reserva = b1.codigo_reserva
              /\ s2.codigo_reserva = b2.codigo_reserva
              /\ s1.hora # s2.hora

\* The row number of a seat label (its digits, as a number) and its cabin
\* letter (its last character).
SeatRow(l) == CastInteger(SelectSeq(l, LAMBDA c : c \in Digits))

SeatLetter(l) == l[Len(l)]

\* Label l1 comes before l2: by row number, then by cabin letter.
RowThenLetter(l1, l2) ==
    \/ SeatRow(l1) < SeatRow(l2)
    \/ /\ SeatRow(l1) = SeatRow(l2)
       /\ CharOrd(SeatLetter(l1)) < CharOrd(SeatLetter(l2))

\* The candidate seats of ticket t among the tickets B: the seats of the
\* aircraft of t's flight with t's class that no ticket of t's flight holds.
Candidates(B, t) ==
    { a \in assento :
        /\ a.no_serie = VooById(t.voo_id).no_serie
        /\ a.prim_classe = t.prim_classe
        /\ ~\E b \in B : b.voo_id = t.voo_id /\ b.lugar = a.lugar }

\* C11: the seat a check-in picks is a candidate seat (of the aircraft of
\* the ticket's flight, of the ticket's class, held by no ticket of the
\* flight) and comes before every other candidate by row number (2 before
\* 10) and then by cabin letter; the check-in then ends with 200, the
\* ticket holding that seat.
C11_MinimumSeat ==
    [][\A p \in Procs :
          /\ (pc[p] = "c_find" /\ pc'[p] = "c_update") =>
                LET t == TicketRow(req[p].bilhete_id)
                    l == loc'[p].lugar
                IN  /\ \E a \in Candidates(bilhete, t) : a.lugar = l
                    /\ \A a \in Candidates(bilhete, t) :
                          a.lugar = l \/ RowThenLetter(l, a.lugar)
          /\ (pc[p] = "c_update" /\ pc'[p] = "done") =>
                /\ resp'[p].status = 200
                /\ resp'[p].lugar = loc[p].lugar
                /\ \E b \in bilhete' :
                      b.id = req[p].bilhete_id /\ b.lugar = loc[p].lugar
       ]_vars

\* A check-in of a ticket of flight 3 was given 2A while 2B was free too.
C11_Witness ==
    \E p \in Procs :
        /\ Done(p) /\ req[p].kind = "checkin" /\ resp[p].status = 200
        /\ TicketRow(req[p].bilhete_id).voo_id = 3
        /\ resp[p].lugar = Seat2A
        /\ ~\E b \in bilhete : b.voo_id = 3 /\ b.lugar = Seat2B

\* C12: seat occupancy is scoped to the ticket's flight.  When a check-in
\* looks for a seat, a seat of the aircraft and class that only tickets of
\* other flights hold is on offer: the check-in does not end without a
\* seat, and the seat it picks is that one or comes before it; the seat it
\* picks is held by no ticket of the same flight and aircraft serial.
C12_OccupancyPerFlight ==
    [][\A p \in Procs :
          (pc[p] = "c_find" /\ pc'[p] # "c_find") =>
             LET t  == TicketRow(req[p].bilhete_id)
                 ns == VooById(t.voo_id).no_serie
                 heldHere(a) == \E b \in bilhete : /\ b.voo_id = t.voo_id
                                                   /\ b.no_serie = a.no_serie
                                                   /\ b.lugar = a.lugar
                 offered == { a \in assento : /\ a.no_serie = ns
                                              /\ a.prim_classe = t.prim_classe
                                              /\ ~heldHere(a) }
             IN  /\ offered # {} => pc'[p] = "c_update"
                 /\ pc'[p] = "c_update" =>
                       /\ \E a \in offered : a.lugar = loc'[p].lugar
                       /\ \A a \in offered :
                             a.lugar = loc'[p].lugar
                               \/ RowThenLetter(loc'[p].lugar, a.lugar)
       ]_vars

\* A ticket of flight 1 was given seat 2A by a check-in while a ticket of
\* another flight of the same aircraft holds 2A.
C12_Witness ==
    \E p \in Procs :
        /\ Done(p) /\ req[p].kind = "checkin" /\ resp[p].status = 200
        /\ resp[p].lugar = Seat2A
        /\ \E b \in bilhete :
              /\ b.voo_id # TicketRow(req[p].bilhete_id).voo_id
              /\ b.no_serie = TicketRow(req[p].bilhete_id).no_serie
              /\ b.lugar = Seat2A

\* Every seat of t's class on the aircraft of t's flight is held by a
\* ticket of that flight, among the tickets B.
ClassFull(B, t) ==
    \A a \in assento :
        (a.no_serie = VooById(t.voo_id).no_serie /\ a.prim_classe = t.prim_classe)
            => \E b \in B : b.voo_id = t.voo_id /\ b.lugar = a.lugar

\* C13: a check-in of an existing unassigned ticket before departure, when
\* it looks for a seat, ends with the "no seats of this class" 409 if and
\* only if every seat of the ticket's class on the flight's aircraft is
\* held by a ticket of the flight; otherwise it goes on to assign a seat
\* and ends with 200.
C13_NoSeatsIffClassFull ==
    [][\A p \in Procs :
          /\ (pc[p] = "c_find" /\ pc'[p] # "c_find") =>
                IF ClassFull(bilhete, TicketRow(req[p].bilhete_id))
                THEN /\ pc'[p] = "done"
                     /\ resp'[p].status = 409
                     /\ resp'[p].msg = "no_seats"
                     /\ bilhete' = bilhete
                ELSE pc'[p] = "c_update"
          /\ (pc[p] = "c_update" /\ pc'[p] # "c_update") =>
                pc'[p] = "done" /\ resp'[p].status = 200
       ]_vars

\* An economy ticket of flight 1 was refused for want of seats: both
\* economy seats of AV1 are held by tickets of flight 1.
C13_Witness ==
    \E p \in Procs :
        /\ Done(p) /\ req[p].kind = "checkin"
        /\ resp[p].status = 409 /\ resp[p].msg = "no_seats"
        /\ TicketRow(req[p].bilhete_id).voo_id = 1
        /\ TicketRow(req[p].bilhete_id).lugar = NULL
        /\ \A l \in {Seat2A, Seat10A} : \E b \in bilhete : b.voo_id = 1 /\ b.lugar = l

\* C14: every ticket that holds a seat holds a (seat, aircraft serial) pair
\* that is a row of assento, on the aircraft of the ticket's flight and of
\* the ticket's class.
C14_AssignedSeatExists ==
    \A b \in bilhete :
        b.lugar # NULL =>
            \E a \in assento : /\ a.lugar = b.lugar
                               /\ a.no_serie = b.no_serie
                               /\ a.no_serie = VooById(b.voo_id).no_serie
                               /\ a.prim_classe = b.prim_classe

\* A check-in gave a seat to a purchased economy ticket of flight 3 while
\* the first-class ticket bought with it has none.
C14_Witness ==
    \E p \in Procs :
        /\ Done(p) /\ req[p].kind = "checkin" /\ resp[p].status = 200
        /\ TicketRow(req[p].bilhete_id).voo_id = 3
        /\ TicketRow(req[p].bilhete_id).lugar # NULL
        /\ \E b \in bilhete : b.voo_id = 3 /\ b.prim_classe /\ b.lugar = NULL

\* C15: a purchase with a well-formed body for a flight id that no flight
\* has, and a check-in for a ticket id that no ticket has when the ticket is
\* looked up, each end with 404, and no step of such a request changes a
\* Sale or a Ticket row.
C15_NotFound ==
    [][\A p \in Procs :
          /\ ( /\ pc[p] = "p_lock" /\ pc'[p] # "p_lock"
               /\ WellFormedBody(req[p].data)
               /\ ~\E v \in voo : v.id = req[p].voo_id )
             => /\ pc'[p] = "done"
                /\ resp'[p].status = 404
                /\ venda' = venda /\ bilhete' = bilhete
          /\ ( /\ pc[p] = "c_lock" /\ pc'[p] # "c_lock"
               /\ ~\E b \in bilhete : b.id = req[p].bilhete_id )
             => /\ pc'[p] = "done"
                /\ resp'[p].status = 404
                /\ venda' = venda /\ bilhete' = bilhete
          /\ ( /\ pc[p] = "idle" /\ pc'[p] # "idle"
               /\ \/ req'[p].kind = "checkin"
                  \/ /\ req'[p].kind = "purchase"
                     /\ ~\E v \in voo : v.id = req'[p].voo_id )
             => venda' = venda /\ bilhete' = bilhete
       ]_vars

\* A purchase of one ticket on flight id 9 and a check-in of ticket id 5
\* have both ended with 404; the tables hold the seeded rows only.
C15_Witness ==
    /\ \E p \in Procs :
          /\ Done(p) /\ req[p].kind = "purchase" /\ req[p].voo_id \notin VooIds
          /\ WellFormedBody(req[p].data) /\ resp[p].status = 404
    /\ \E p \in Procs :
          /\ Done(p) /\ req[p].kind = "checkin" /\ resp[p].status = 404
          /\ ~\E b \in bilhete : b.id = req[p].bilhete_id
    /\ venda = SeedVenda
    /\ Cardinality(bilhete) = 4

\* C16: a purchase whose body is malformed (missing or not a JSON object,
\* tax id not 9 digits, ticket list missing or empty, an entry without a
\* non-blank name and a boolean class flag) has ended with 400 as soon as
\* it is received, holding no connection, no lock and no pending write.
C16_MalformedBody400 ==
    \A p \in Procs :
        (req[p].kind = "purchase" /\ ~WellFormedBody(req[p].data)) =>
            /\ Done(p)
            /\ resp[p].status = 400
            /\ p \notin conn
            /\ lock[p] = NoLock
            /\ pend[p] = NoPend

\* The instant a flight departs, as the storage engine reads hora_partida
\* in a comparison with the current time.
DepartureInstant(v) == v.hora_partida - SessionTzOffset

\* Flight v has a free seat among the tickets B: its aircraft has more
\* seats than B has tickets of v, with or without a seat.
HasFreeSeat(B, v) ==
    Cardinality({a \in assento : a.no_serie = v.no_serie})
        > Cardinality({b \in B : b.voo_id = v.id})

\* The flights slot p's next-available-flights request may list: those of
\* its route that depart after its now and have a free seat.
Listable(p) ==
    { v \in voo : /\ v.partida = Upper(req[p].partida)
                  /\ v.chegada = Upper(req[p].chegada)
                  /\ DepartureInstant(v) > obs[p].clock
                  /\ HasFreeSeat(bilhete, v) }

\* C17: when the next-available-flights query answers, every flight it
\* lists matches origin and destination, departs strictly after now, and
\* has an aircraft with strictly more seats than the flight has tickets,
\* tickets without a seat counted like the others.
C17_ListedOnlyIfAvailable ==
    [][\A p \in Procs :
          (pc[p] = "q_available" /\ pc'[p] = "done") =>
             \A i \in 1..Len(resp'[p].data) :
                \E v \in voo :
                   /\ v.id = resp'[p].data[i].voo_id
                   /\ v.partida = Upper(req[p].partida)
                   /\ v.chegada = Upper(req[p].chegada)
                   /\ DepartureInstant(v) > obs[p].clock
                   /\ Cardinality({a \in assento : a.no_serie = v.no_serie})
                        > Cardinality({b \in bilhete : b.voo_id = v.id})
       ]_vars

\* A query from LIS to CDG at hour 0 has listed flights, and not flight 3,
\* which departs first but has two tickets, both without a seat, for the
\* two seats of its aircraft.
C17_Witness ==
    \E p \in Procs :
        /\ Done(p) /\ req[p].kind = "available" /\ resp[p].status = 200
        /\ req[p].partida = LIS /\ req[p].chegada = CDG
        /\ obs[p].clock = 0
        /\ Len(resp[p].data) > 0
        /\ \A i \in 1..Len(resp[p].data) : resp[p].data[i].voo_id # 3
        /\ Cardinality({b \in bilhete : b.voo_id = 3 /\ b.lugar = NULL}) = 2

\* C18: the next-available-flights result has at most 3 flights, each
\* flight once, in ascending order of departure, and they are the earliest
\* of the flights with a free seat: every flight with a free seat that is
\* left out departs no earlier than those listed, and the list is shorter
\* than 3 only when it holds all of them.
C18_EarliestThree ==
    [][\A p \in Procs :
          (pc[p] = "q_available" /\ pc'[p] = "done") =>
             LET data == resp'[p].data
                 ids  == {data[i].voo_id : i \in 1..Len(data)}
             IN  /\ Len(data) <= 3
                 /\ Cardinality(ids) = Len(data)
                 /\ ids \subseteq {v.id : v \in Listable(p)}
                 /\ \A i, j \in 1..Len(data) :
                       i < j => data[i].hora_partida <= data[j].hora_partida
                 /\ \A i \in 1..Len(data) :
                       data[i].hora_partida = VooById(data[i].voo_id).hora_partida
                 /\ \A v \in Listable(p) :
                       v.id \notin ids =>
                          /\ Len(data) = 3
                          /\ \A i \in 1..Len(data) :
                                data[i].hora_partida <= v.hora_partida
       ]_vars

\* A query from LIS to CDG at hour 0 has listed three flights, the two of
\* hour 4 and the one of hour 13, while the full flight 3 of hour 3 and the
\* flight of hour 14 are left out.
C18_Witness ==
    \E p \in Procs :
        /\ Done(p) /\ req[p].kind = "available" /\ resp[p].status = 200
        /\ obs[p].clock = 0
        /\ Len(resp[p].data) = 3
        /\ {resp[p].data[i].voo_id : i \in 1..3} = {5, 6, 4}
        /\ resp[p].data[3].voo_id = 4
        /\ Cardinality({b \in bilhete : b.voo_id = 3}) = 2

\* The flights that leave airport codigo later than hour now and not later
\* than 12 hours after it.
Upcoming(codigo, now) ==
    { v \in voo : /\ v.partida = codigo
                  /\ now < DepartureInstant(v)
                  /\ DepartureInstant(v) <= now + 12 }

\* C19: for an existing airport, list-upcoming-departures answers 200 with
\* exactly the flights that leave it with now < departure <= now + 12 hours,
\* one row for each, in ascending order of departure; when there is none
\* the answer is still 200, with an empty list.
C19_UpcomingDepartures ==
    \A p \in Procs :
        (Done(p) /\ req[p].kind = "departures" /\ req[p].partida \in aeroporto) =>
            LET data == resp[p].data
                W    == Upcoming(req[p].partida, obs[p].clock)
                row(v) == [no_serie |-> v.no_serie, hora_partida |-> v.hora_partida,
                           aeroporto_chegada |-> v.chegada]
            IN  /\ resp[p].status = 200
                /\ Len(data) = Cardinality(W)
                /\ \A i \in 1..Len(data) : \E v \in W : data[i] = row(v)
                /\ \A v \in W :
                      Cardinality({i \in 1..Len(data) : data[i] = row(v)})
                         = Cardinality({w \in W : row(w) = row(v)})
                /\ \A i, j \in 1..Len(data) :
                      i < j => data[i].hora_partida <= data[j].hora_partida

\* At hour 0 the departures of LIS are the four flights of hours 3, 4, 4
\* and 13: the flight that leaves at that very instant is left out, the one
\* that leaves 12 hours later is listed, the one after it is not; and a
\* later request for CDG got 200 with an empty list.
C19_Witness ==
    /\ \E p \in Procs :
          /\ Done(p) /\ req[p].kind = "departures" /\ req[p].partida = LIS
          /\ obs[p].clock = 0
          /\ \E v \in voo : v.partida = LIS /\ DepartureInstant(v) = 0
          /\ Len(resp[p].data) = 4
          /\ resp[p].data[4].hora_partida = 12 + SessionTzOffset
    /\ \E p \in Procs :
          /\ Done(p) /\ req[p].kind = "departures" /\ req[p].partida = CDG
          /\ resp[p].status = 200 /\ resp[p].data = <<>>

\* C20: a next-available-flights request whose origin and destination are
\* the same code is answered 400 as soon as it is received, never 404, also
\* when no airport has that code.
C20_EqualCodes400 ==
    \A p \in Procs :
        (req[p].kind = "available" /\ Upper(req[p].partida) = Upper(req[p].chegada)) =>
            Done(p) /\ resp[p].status = 400

\* A request from XXX to XXX, a code of no airport, got 400.
C20_Witness ==
    \E p \in Procs :
        /\ Done(p) /\ req[p].kind = "available"
        /\ req[p].partida = XXX /\ req[p].chegada = XXX
        /\ XXX \notin aeroporto
        /\ resp[p].status = 400

\* Three upper-case letters.
WellFormedCode(codigo) ==
    Len(codigo) = 3 /\ \A i \in 1..3 : codigo[i] \in UpperChars

\* C21: with well-formed codes (distinct ones, for the query of two
\* airports), the departures query answers 404 when its airport is none of
\* the Airport rows, and the next-available-flights query answers 404 when
\* its origin or its destination is none of them; neither answer carries a
\* list of flights.
C21_AirportNotFound ==
    \A p \in Procs :
        Done(p) =>
           /\ ( /\ req[p].kind = "departures"
                /\ WellFormedCode(req[p].partida)
                /\ req[p].partida \notin aeroporto )
              => (resp[p].status = 404 /\ resp[p].data = <<>>)
           /\ ( /\ req[p].kind = "available"
                /\ WellFormedCode(req[p].partida)
                /\ WellFormedCode(req[p].chegada)
                /\ req[p].partida # req[p].chegada
                /\ \/ req[p].partida \notin aeroporto
                   \/ req[p].chegada \notin aeroporto )
              => (resp[p].status = 404 /\ resp[p].data = <<>>)

\* A departures query of a code of no airport and a next-available-flights
\* query to a code of no airport have been answered 404.
C21_Witness ==
    \E p, q \in Procs :
        /\ Done(p) /\ req[p].kind = "departures" /\ req[p].partida = XXX
        /\ resp[p].status = 404
        /\ Done(q) /\ req[q].kind = "available"
        /\ req[q].partida = LIS /\ req[q].chegada = XXX
        /\ resp[q].status = 404

C23_ConnectionReturned ==
    /\ \A p \in Procs : pc[p] \in {"idle", "done"} => p \notin conn
    /\ (\A p \in Procs : pc[p] \in {"idle", "done"}) => conn = {}

\* A request has ended by a storage error and another by an early return
\* with 404 or 409, both after taking a connection, and none is checked out.
C23_Witness ==
    \E p, q \in Procs :
        /\ Done(p) /\ resp[p].msg = "db_error"
        /\ Done(q) /\ resp[q].status \in {404, 409} /\ resp[q].msg # "db_error"
        /\ conn = {}

\* The passenger names of a well-formed body, as the storage compares them.
PassengerNames(data) ==
    { data.v["bilhetes_a_comprar"].v[i].v["nome_passageiro"].v :
         i \in 1..Len(data.v["bilhetes_a_comprar"].v) }

\* C24: purchase enforces the departure cutoff and the uniqueness of its
\* own rows, not capacity: a purchase with a well-formed body of distinct
\* passenger names, on an existing flight, whose canonical now is before
\* the departure, ends with 201 however many tickets the flight already
\* has.
C24_PurchaseIgnoresCapacity ==
    \A p \in Procs :
        ( /\ PurchaseOnFlight(p)
          /\ WellFormedBody(req[p].data)
          /\ Cardinality(PassengerNames(req[p].data))
                = Len(req[p].data.v["bilhetes_a_comprar"].v)
          /\ Instant(loc[p].now) < VooById(req[p].voo_id).hora_partida )
        => resp[p].status = 201

\* A purchase on the flight that had a ticket for every seat of its
\* aircraft has ended with 201: the flight has more tickets than seats.
C24_Witness ==
    \E p \in Procs :
        /\ PurchaseOnFlight(p) /\ req[p].voo_id = 1 /\ resp[p].status = 201
        /\ Cardinality({b \in bilhete : b.voo_id = 1})
              > Cardinality({a \in assento : a.no_serie = VooById(1).no_serie})

\* C25: the step that ends a check-in with any status but 200 (404, 409
\* already checked in, 409 flight departed, 409 no seats) leaves the Sale
\* and Ticket rows as they were.
C25_FailedCheckinWritesNothing ==
    [][\A p \in Procs :
          ( /\ req[p].kind = "checkin"
            /\ pc[p] # "done" /\ pc'[p] = "done"
            /\ resp'[p].status # 200 )
          => (bilhete' = bilhete /\ venda' = venda)]_vars

\* A check-in has been refused for want of a seat after another took the
\* last one, and its ticket has no seat.
C25_Witness ==
    \E p, q \in Procs :
        /\ Done(p) /\ req[p].kind = "checkin"
        /\ resp[p].status = 409 /\ resp[p].msg = "no_seats"
        /\ TicketRow(req[p].bilhete_id).lugar = NULL
        /\ Done(q) /\ req[q].kind = "checkin" /\ resp[q].status = 200
        /\ TicketRow(req[q].bilhete_id).voo_id = TicketRow(req[p].bilhete_id).voo_id

\* The step ends a purchase of slot p with 201.
PurchaseSucceeds(p) ==
    req[p].kind = "purchase" /\ pc[p] # "done" /\ pc'[p] = "done"
    /\ resp'[p].status = 201

\* The step ends a check-in of slot p with 200.
CheckinSucceeds(p) ==
    req[p].kind = "checkin" /\ pc[p] # "done" /\ pc'[p] = "done"
    /\ resp'[p].status = 200

\* C26: in every step no Sale and no Ticket is deleted and a Ticket keeps
\* every column but its seat and aircraft serial; Sale or Ticket rows are
\* added only by the step that ends a purchase with 201; a Ticket's seat or
\* serial changes only in the step that ends a check-in with 200, and only
\* on the ticket of that check-in.  (Airport, Aircraft, Seat and Flight are
\* written by no statement of the service.)
C26_Frame ==
    [][ /\ venda \subseteq venda'
        /\ \A b \in bilhete :
              \E c \in bilhete' :
                 [c EXCEPT !.lugar = b.lugar, !.no_serie = b.no_serie] = b
        /\ ( \/ venda' # venda
             \/ {c.id : c \in bilhete'} # {b.id : b \in bilhete} )
           => \E p \in Procs : PurchaseSucceeds(p)
        /\ \A b \in bilhete :
              b \notin bilhete'
              => \E p \in Procs :
                    CheckinSucceeds(p) /\ req[p].bilhete_id = b.id
      ]_vars

\* A purchase has added its Sale and Tickets and a check-in has given one
\* of the seeded tickets its seat.
C26_Witness ==
    \E p, q \in Procs :
        /\ Done(p) /\ req[p].kind = "purchase" /\ resp[p].status = 201
        /\ \E s \in venda : s.codigo_reserva = resp[p].codigo_reserva
        /\ Done(q) /\ req[q].kind = "checkin" /\ resp[q].status = 200
        /\ TicketRow(req[q].bilhete_id).lugar = resp[q].lugar

\* The transaction state w holds no uncommitted write.
NoWrites(w) == w.venda = {} /\ w.inserted = {} /\ w.updated = {}

\* Slot p's purchase is past its SELECT ... FOR UPDATE and its transaction
\* has not ended.
PurchaseHoldsLock(p) ==
    req[p].kind = "purchase" /\ pc[p] \in {"p_venda", "p_bilhete", "p_commit"}

\* C27: two purchases on the same flight are never both between the
\* acquisition of the flight's row lock and the end of their transaction:
\* while one is there the other has made no cutoff check and no insert, and
\* holds no lock.
C27_PurchasesExclusive ==
    \A p, q \in Procs :
        (p # q /\ PurchaseHoldsLock(p) /\ req[q].kind = "purchase"
               /\ req[q].voo_id = req[p].voo_id)
        => /\ ~PurchaseHoldsLock(q)
           /\ lock[q] = NoLock
           /\ NoWrites(pend[q])

\* A purchase has inserted its Sale and holds the flight's row while
\* another purchase on the same flight waits at its SELECT ... FOR UPDATE.
C27_Witness ==
    \E p, q \in Procs :
        /\ p # q
        /\ PurchaseHoldsLock(p) /\ pend[p].venda # {}
        /\ lock[p] = [tbl |-> "voo", id |-> req[p].voo_id]
        /\ req[q].kind = "purchase" /\ req[q].voo_id = req[p].voo_id
        /\ pc[q] = "p_lock"

\* The ended check-ins of ticket id that were requested while the ticket
\* had no seat and whose canonical now is before the departure.
SameTicketCheckins(id) ==
    { p \in Procs :
        /\ Done(p) /\ req[p].kind = "checkin" /\ req[p].bilhete_id = id
        /\ obs[p].found /\ obs[p].lugar = NULL
        /\ Instant(loc[p].now) < VooById(TicketRow(id).voo_id).hora_partida }

\* C28: of the check-ins of one ticket that were requested while it had no
\* seat, before the departure, at most one ends with 200; when one does,
\* the ticket holds its seat and every other one is answered the 409 that
\* reports that seat; none ends with 200 only if no seat of the class is
\* free, and then each is answered the no-seats 409 and the ticket has no
\* seat.
C28_OneCheckinWins ==
    \A b \in bilhete :
        LET S == SameTicketCheckins(b.id)
            W == {p \in S : resp[p].status = 200}
        IN  /\ Cardinality(W) <= 1
            /\ \A w \in W :
                  /\ b.lugar = resp[w].lugar
                  /\ \A q \in S \ {w} :
                        /\ resp[q].status = 409 /\ resp[q].msg = "already"
                        /\ resp[q].lugar = resp[w].lugar
            /\ (W = {} /\ S # {})
               => /\ b.lugar = NULL
                  /\ ClassFull(bilhete, b)
                  /\ \A q \in S : resp[q].status = 409 /\ resp[q].msg = "no_seats"

\* Two check-ins of one ticket were both requested while it had no seat:
\* one ended with 200 and the other with the 409 that reports its seat.
C28_Witness ==
    \E b \in bilhete :
        \E p, q \in SameTicketCheckins(b.id) :
            /\ p # q
            /\ resp[p].status = 200
            /\ resp[q].status = 409 /\ resp[q].msg = "already"
            /\ resp[q].lugar = resp[p].lugar /\ b.lugar = resp[p].lugar

\* The step in which slot q's purchase acquires the row lock of its flight.
PurchaseAcquires(q) ==
    req[q].kind = "purchase" /\ pc[q] = "p_lock" /\ pc'[q] = "p_venda"

\* C29: when a purchase acquires the row lock of a flight, its canonical
\* now is not earlier than that of any purchase on the flight that has
\* committed; and no purchase commits its Sale when the clock is at or
\* after the flight's departure.
C29_MonotonicNow ==
    [][ /\ \A q \in Procs :
              PurchaseAcquires(q)
              => \A p \in Procs :
                    ( /\ Done(p) /\ req[p].kind = "purchase"
                      /\ req[p].voo_id = req[q].voo_id
                      /\ resp[p].status = 201 )
                    => Instant(loc[q].now) >= Instant(loc[p].now)
        /\ \A p \in Procs :
              PurchaseSucceeds(p)
              => clock < VooById(req[p].voo_id).hora_partida
      ]_vars

\* The flight of the ticket of slot p's check-in has departed by the
\* check-in's canonical now.
DepartedFor(p) ==
    Instant(loc[p].now) >= VooById(TicketRow(req[p].bilhete_id).voo_id).hora_partida

\* C30: check-in tests for an assigned seat before the departure, and the
\* departure before the seats: a check-in of a ticket that had a seat, on
\* a flight that has departed, is answered the 409 that names the seat; a
\* check-in of a ticket that has no seat, on a flight that has departed
\* and has no free seat of the ticket's class, is answered the
\* flight-departed 409.
C30_CheckOrder ==
    \A p \in Procs :
        (Done(p) /\ req[p].kind = "checkin" /\ obs[p].found /\ DepartedFor(p))
        => LET t == TicketRow(req[p].bilhete_id)
           IN  /\ obs[p].lugar # NULL
                  => /\ resp[p].status = 409 /\ resp[p].msg = "already"
                     /\ resp[p].lugar = obs[p].lugar
               /\ (t.lugar = NULL /\ ClassFull(bilhete, t))
                  => resp[p].status = 409 /\ resp[p].msg = "departed"

\* A check-in of a ticket with no seat was answered flight departed when
\* every seat of its class on the flight was taken.
C30_Witness ==
    \E p \in Procs :
        /\ Done(p) /\ req[p].kind = "checkin" /\ obs[p].found /\ DepartedFor(p)
        /\ TicketRow(req[p].bilhete_id).lugar = NULL
        /\ ClassFull(bilhete, TicketRow(req[p].bilhete_id))
        /\ resp[p].status = 409 /\ resp[p].msg = "departed"

\* The step ends slot p's purchase or check-in with a Conflict detected
\* inside its transaction: flight departed, ticket already assigned, or no
\* free seat.
ConflictDetected(p) ==
    /\ req[p].kind \in {"purchase", "checkin"}
    /\ pc[p] # "done" /\ pc'[p] = "done"
    /\ resp'[p].status = 409
    /\ resp'[p].msg \in {"departed", "already", "no_seats"}

C32_TransactionsEnd ==
    /\ \A p \in Procs :
          (p \in conn) ~> (pc[p] = "done" /\ lock[p] = NoLock /\ p \notin conn)
    /\ [](\A p \in Procs : lock[p] # NoLock => ENABLED SlotStep(p))

\* Two purchases on one flight that arrived at the same hour, of which one
\* had to wait for the other's row lock, have both ended with 201, and no
\* lock or connection is held.
C32_Witness ==
    \E p, q \in Procs :
        /\ p # q
        /\ Done(p) /\ req[p].kind = "purchase" /\ resp[p].status = 201
        /\ Done(q) /\ req[q].kind = "purchase" /\ resp[q].status = 201
        /\ req[q].voo_id = req[p].voo_id /\ obs[q].clock = obs[p].clock
        /\ conn = {} /\ \A r \in Procs : lock[r] = NoLock

\* C33: the connections checked out never exceed the pool's maximum, and
\* the step in which a request gives up waiting for a connection answers
\* 500, takes no connection and no lock, opens no transaction, and leaves
\* the handler's locals empty (nothing read) and the Sale and Ticket rows
\* and their sequences as they were (nothing written).
C33_PoolBound ==
    [][ /\ Cardinality(conn') <= poolMax'
        /\ \A p \in Procs :
              (pc[p] = "idle" /\ resp'[p].msg = "pool_timeout")
              => /\ resp'[p].status = 500
                 /\ p \notin conn' /\ lock'[p] = NoLock
                 /\ pend'[p] = NoPend /\ loc'[p] = NoLoc
                 /\ venda' = venda /\ bilhete' = bilhete
                 /\ seq_venda' = seq_venda /\ seq_bilhete' = seq_bilhete
      ]_vars

\* A request has timed out with 500 while every connection of the pool is
\* checked out by other requests.
C33_Witness ==
    \E p \in Procs :
        /\ Done(p) /\ resp[p].msg = "pool_timeout" /\ resp[p].status = 500
        /\ Cardinality(conn) = poolMax
        /\ p \notin conn

\* C34: both flight queries answer 400, holding no connection, to every
\* request in which a code is not three upper-case letters A-Z: the
\* departure code of the departures query, either code of the
\* next-available-flights query.
C34_CodeFormat400 ==
    \A p \in Procs :
        /\ ( /\ req[p].kind = "departures"
             /\ ~WellFormedCode(req[p].partida) )
           => (Done(p) /\ resp[p].status = 400)
        /\ ( /\ req[p].kind = "available"
             /\ ~(WellFormedCode(req[p].partida) /\ WellFormedCode(req[p].chegada)) )
           => (Done(p) /\ resp[p].status = 400 /\ p \notin conn)

\* The Sale rows the service created: all but the populated ones.
ServiceSales == venda \ SeedVenda

\* C35: in every committed state every Sale the service created has a
\* Ticket that references it, and all the Tickets that reference it are of
\* one flight; reservation codes and ticket ids are keys; and the code and
\* the ticket ids of a successful purchase are those of no populated row
\* and of no other purchase.
C35_SalesHaveTickets ==
    /\ \A s \in ServiceSales :
          /\ \E b \in bilhete : b.codigo_reserva = s.codigo_reserva
          /\ \A b1, b2 \in bilhete :
                (b1.codigo_reserva = s.codigo_reserva
                    /\ b2.codigo_reserva = s.codigo_reserva)
                => b1.voo_id = b2.voo_id
    /\ \A s1, s2 \in venda : s1.codigo_reserva = s2.codigo_reserva => s1 = s2
    /\ \A b1, b2 \in bilhete : b1.id = b2.id => b1 = b2
    /\ \A p \in Procs :
          (Done(p) /\ req[p].kind = "purchase" /\ resp[p].status = 201)
          => /\ \A s \in SeedVenda : s.codigo_reserva # resp[p].codigo_reserva
             /\ \A i \in 1..Len(resp[p].bilhetes) :
                   /\ ~\E b \in bilhete, s \in SeedVenda :
                         /\ b.codigo_reserva = s.codigo_reserva
                         /\ b.id = resp[p].bilhetes[i].id_bilhete
                   /\ \A q \in Procs \ {p} :
                         (Done(q) /\ req[q].kind = "purchase" /\ resp[q].status = 201)
                         => /\ resp[q].codigo_reserva # resp[p].codigo_reserva
                            /\ \A j \in 1..Len(resp[q].bilhetes) :
                                  resp[q].bilhetes[j].id_bilhete
                                     # resp[p].bilhetes[i].id_bilhete

\* Two purchases of two tickets, on different flights, have ended with
\* 201: two Sales of the service are committed.
C35_Witness ==
    \E p, q \in Procs :
        /\ Done(p) /\ req[p].kind = "purchase" /\ resp[p].status = 201
        /\ Done(q) /\ req[q].kind = "purchase" /\ resp[q].status = 201
        /\ req[p].voo_id # req[q].voo_id
        /\ Len(resp[p].bilhetes) = 2 /\ Len(resp[q].bilhetes) = 2
        /\ Cardinality(ServiceSales) = 2

\* C36: availability is monotone.  A flight whose aircraft has no more
\* seats than the flight has tickets stays so in every step, and the
\* next-available-flights query lists no flight that is so when it runs:
\* once a flight is full no later query lists it.
C36_FullStaysUnlisted ==
    [][ /\ \A v \in voo :
              ~HasFreeSeat(bilhete, v) => ~HasFreeSeat(bilhete', v)
        /\ \A p \in Procs :
              (pc[p] = "q_available" /\ pc'[p] = "done")
              => \A i \in 1..Len(resp'[p].data) :
                    HasFreeSeat(bilhete, VooById(resp'[p].data[i].voo_id))
      ]_vars

\* A query of the route, made while its earliest flight had not departed,
\* has answered with flights and without that one, which has a ticket for
\* every seat.
C36_Witness ==
    \E p \in Procs :
        /\ Done(p) /\ req[p].kind = "available"
        /\ resp[p].status = 200 /\ Len(resp[p].data) > 0
        /\ VooById(3).partida = req[p].partida
        /\ VooById(3).chegada = req[p].chegada
        /\ DepartureInstant(VooById(3)) > obs[p].clock
        /\ \A i \in 1..Len(resp[p].data) : resp[p].data[i].voo_id # 3
        /\ ~HasFreeSeat(bilhete, VooById(3))

\* C37: the flights the generator emits agree with the uniqueness
\* constraints of voo: no two of them have the same departure time,
\* departure airport and arrival airport, and no aircraft has two of them
\* with the same departure time, the LIS/CDG flights of every aircraft
\* included, whatever the random draws.
C37_EmittedFlightsUnique ==
    gpc = "bilhetes" =>
        \A i, j \in DOMAIN flights_generated :
            i # j =>
              /\ ~ /\ flights_generated[i].hora_partida = flights_generated[j].hora_partida
                   /\ flights_generated[i].partida = flights_generated[j].partida
                   /\ flights_generated[i].chegada = flights_generated[j].chegada
              /\ ~ /\ flights_generated[i].no_serie = flights_generated[j].no_serie
                   /\ flights_generated[i].hora_partida = flights_generated[j].hora_partida

\* The tickets generated for a flight, and the seats of its aircraft.
TicketsOfFlight(flight_id) ==
    {i \in DOMAIN tickets_generated : tickets_generated[i].voo_id = flight_id}

SeatsOfAircraft(no_serie) == {s \in seats_generated : s.no_serie = no_serie}

\* C38: for every flight the generator emits no more tickets than its
\* aircraft has seats; the tickets of a flight are matched one to one, class
\* by class, by the seats of that aircraft booked for the flight (a ticket
\* that still carries its seat carries one of them, of its class, and no
\* other ticket of the flight carries it); and every ticket is written
\* with a null seat and the serial number of its flight's aircraft.
C38_TicketsWithinSeats ==
    /\ \A k \in DOMAIN all_flights_details_for_tickets :
          LET f == all_flights_details_for_tickets[k]
              seats == SeatsOfAircraft(f.no_serie)
              tickets == TicketsOfFlight(f.id)
              booked == IF f.id \in DOMAIN booked_seats_on_flight
                        THEN booked_seats_on_flight[f.id] ELSE {}
          IN /\ Cardinality(tickets) <= Cardinality(seats)
             /\ booked \subseteq {<<s.lugar, s.no_serie>> : s \in seats}
             /\ \A c \in BOOLEAN :
                   Cardinality({i \in tickets : tickets_generated[i].prim_classe = c})
                     = Cardinality({s \in seats : /\ s.prim_classe = c
                                                   /\ <<s.lugar, s.no_serie>> \in booked})
             /\ \A i \in tickets :
                   /\ tickets_generated[i].no_serie = f.no_serie
                   /\ tickets_generated[i].lugar # None =>
                         /\ \E s \in seats :
                               /\ s.lugar = tickets_generated[i].lugar
                               /\ s.prim_classe = tickets_generated[i].prim_classe
                         /\ \A j \in tickets \ {i} :
                               tickets_generated[j].lugar # tickets_generated[i].lugar
    /\ \A i \in DOMAIN tickets_generated :
          \E k \in DOMAIN all_flights_details_for_tickets :
              all_flights_details_for_tickets[k].id = tickets_generated[i].voo_id
    /\ gpc = "done" =>
          /\ Len(populate.bilhete) = Len(tickets_generated)
          /\ \A i \in DOMAIN populate.bilhete :
                /\ populate.bilhete[i].lugar = NULL
                /\ populate.bilhete[i].id = tickets_generated[i].id
                /\ populate.bilhete[i].voo_id = tickets_generated[i].voo_id
                /\ populate.bilhete[i].prim_classe = tickets_generated[i].prim_classe
                /\ \E k \in DOMAIN all_flights_details_for_tickets :
                      /\ all_flights_details_for_tickets[k].id = populate.bilhete[i].voo_id
                      /\ all_flights_details_for_tickets[k].no_serie
                            = populate.bilhete[i].no_serie

\* The file is written; a flight that has landed by CHECKIN_DEADLINE has a
\* ticket of each class and one more from the occupancy loop, each
\* generated with its seat, and the tickets are written.
C38_Witness ==
    /\ gpc = "done"
    /\ \E k \in DOMAIN all_flights_details_for_tickets :
          LET f == all_flights_details_for_tickets[k]
          IN /\ f.chegada_dt <= CHECKIN_DEADLINE
             /\ Cardinality(TicketsOfFlight(f.id)) = 3
             /\ \A i \in TicketsOfFlight(f.id) : tickets_generated[i].lugar # None
             /\ \E i \in TicketsOfFlight(f.id) : populate.bilhete[i].lugar = NULL
====
